---- MODULE Spec2Model ----
(***************************************************************************)
(* A model of the hand-eye-test service (package handeyetest): the session *)
(* state machine of service.go (DoCommand, handleDetect, handlePick,       *)
(* handlePickDetected, handleStatus), the pick orchestrator executePick,   *)
(* the detection pipeline detectObjects and the convergence controller     *)
(* handleMoveTo of move.go.                                                *)
(*                                                                         *)
(* Every caller of the service is a goroutine with a program counter       *)
(* pc[p].  A program counter names the statement the goroutine is at: at   *)
(* an "x_..." label an external capability call (camera, gripper, arm,     *)
(* motion service) is in progress and the action that leaves the label is  *)
(* the return of that call, with an outcome the environment chooses.       *)
(* s.mu is modelled by the variable mu, the goroutine holding it.          *)
(***************************************************************************)
EXTENDS Integers, Sequences, FiniteSets, TLC

\* ------------------------------------------------------------------ bounds

\* Largest object_index a caller sends (the smallest is -1).
MaxIndex == 2

\* Largest distance from the origin of a move_to target, in mm.
MaxDistance == 201

\* ------------------------------------------------------- program constants

\* const maxSteps = 200 (move.go)
maxSteps == 200

\* ------------------------------------------------------------ callers, Go values

Callers == {"c1", "c2"}

NoOne == "none"

\* A Go slice of DetectedObject: nil, or a (possibly empty) backing array.
NilSlice == [isNil |-> TRUE, elems |-> <<>>]

Slice(s) == [isNil |-> FALSE, elems |-> s]

\* len(s): 0 for the nil slice.
len(s) == Len(s.elems)

\* append(s, x): appending to the nil slice allocates.
append(s, x) == [isNil |-> FALSE, elems |-> Append(s.elems, x)]

Vec(x, y, z) == [X |-> x, Y |-> y, Z |-> z]

\* r3.Vector{}
ZeroVec == Vec(0, 0, 0)

\* A nil map[string]interface{} (what executePick returns beside an error).
NilMap == [isNil |-> TRUE]

NoErr == "nil"

\* The error values the handlers return (the message's fixed part).
ErrMissingCommand == "missing or invalid 'command' field"

ErrUnknownCommand == "unknown command"

ErrDetectionFailed == "detection failed"

ErrOutOfRange == "object_index out of range"

ErrNoPreviousDetection == "no previous detection; run 'detect' first"

\* --------------------------------------------------- the environment's inputs

\* Point clusters the segmentation capability may return (point clouds as
\* sequences of points; coordinates in mm).
ClusterNear == << Vec(1, 2, 3), Vec(3, 2, 5) >>

ClusterFar == << Vec(0, 0, 9) >>

ClusterBig == << Vec(2, 0, 2), Vec(4, 0, 2), Vec(6, 3, 2) >>

\* What one run of segCfg.CheckValid() and segCfg.RadiusClustering(ctx, cam)
\* can come to: an invalid configuration, a failed segmentation, or clusters.
Invalid == [checkValid |-> "invalid", clustering |-> NoErr, clusters |-> <<>>]

Failed == [checkValid |-> NoErr, clustering |-> "failed", clusters |-> <<>>]

Clusters(cs) == [checkValid |-> NoErr, clustering |-> NoErr, clusters |-> cs]

\* A service configuration (the fields the handlers read).
Config(d, n, f) == [MaxDepthMm |-> d, MaxPointCount |-> n, DetectionFrame |-> f, Camera |-> "cam"]

\* object_index as the caller sends it: absent, or a number.
NoIndex == [present |-> FALSE, val |-> 0]

Index(i) == [present |-> TRUE, val |-> i]

\* cmd["command"]: a string, or missing / not a string.
CommandFields ==
    { [isString |-> TRUE, s |-> c] :
        c \in {"detect", "pick", "pick_detected", "status", "move_to", "calibrate"} }
    \cup { [isString |-> FALSE, s |-> ""] }

\* The external calls of the handlers, by call site.
CallSites ==
    { "gripper.Open", "approach.GetPose", "approach.Move", "arm.EndPosition",
      "grasp.MoveToPosition", "gripper.GetPose", "camera.GetPose", "gripper.Grab",
      "lift.EndPosition", "lift.MoveToPosition", "gripper.IsHoldingSomething",
      "loop.GetPose", "loop.Move", "final.GetPose" }

\* The calls of executePick whose failure is logged and passed over.
AdvisorySites ==
    { "approach.GetPose", "gripper.GetPose", "camera.GetPose",
      "lift.EndPosition", "lift.MoveToPosition", "gripper.IsHoldingSomething" }

\* The positions at which a call of an external capability is in progress.
ExternalCalls ==
    { "x_hd_detect", "x_hp_detect", "x_open", "x_approach_pose", "x_approach_move",
      "x_redetect", "x_endpos", "x_grasp_move", "x_gripper_pose", "x_camera_pose",
      "x_grab", "x_lift_endpos", "x_lift_move", "x_holding",
      "x_mv_getpose", "x_mv_move", "x_mv_final" }

\* The environment of a run: who sends commands and what the capabilities may
\* answer.  Positions are points of the world X axis, in mm.
\*   callers           the callers that send commands
\*   moveApart         whether callers keep a move_to apart from every other
\*                     command but status (one arm serves one motion)
\*   configs           the configurations the service may be constructed with
\*   indexes           the object_index arguments sent
\*   detections        the outcomes of a detection run
\*   mayFail           the call sites whose call may fail
\*   holding, grabbed  the answers of IsHoldingSomething and of Grab
\*   history           whether the session state at each command's start and
\*                     the fact of a recorded detection are kept
\*   gripperPositions  the gripper world positions the motion service reports
\*   cameraPositions   the camera world positions the motion service reports
\*   landing           "exact": a move of the convergence loop lands on its
\*                     waypoint; "any": it lands on any gripper position
\*   targets, stepSizes  the arguments of move_to
\*   closes            the positions of a caller at which the host's Close
\*                     may arrive

\* One caller, every fatal failure, detections that the post-filters cut down.
Sequential ==
    [callers |-> {"c1"},
     moveApart |-> TRUE,
     configs |-> { Config(0, 0, ""), Config(5, 2, ""), Config(5, 2, "world"),
                   Config(5, 3, "") },
     indexes |-> { NoIndex } \cup { Index(i) : i \in -1 .. MaxIndex },
     detections |-> { Invalid, Failed, Clusters(<<>>), Clusters(<<ClusterNear>>),
                      Clusters(<<ClusterFar, ClusterBig>>),
                      Clusters(<<ClusterNear, ClusterFar, ClusterBig>>) },
     mayFail |-> CallSites \ AdvisorySites,
     holding |-> BOOLEAN,
     grabbed |-> { TRUE },
     history |-> TRUE,
     gripperPositions |-> { Vec(0, 0, 0) },
     cameraPositions |-> { Vec(10, 0, 0) },
     landing |-> "exact",
     targets |-> { Vec(4, 0, 0) },
     stepSizes |-> { 3 },
     closes |-> ExternalCalls]

\* One caller, few detections, every answer of every capability: the paths
\* of executePick.
Picking ==
    [callers |-> {"c1"},
     moveApart |-> TRUE,
     configs |-> { Config(0, 0, ""), Config(0, 0, "world") },
     indexes |-> { NoIndex, Index(-1), Index(MaxIndex - 1) },
     detections |-> { Failed, Clusters(<<ClusterNear>>), Clusters(<<ClusterBig>>) },
     mayFail |-> CallSites,
     holding |-> BOOLEAN,
     grabbed |-> BOOLEAN,
     history |-> TRUE,
     gripperPositions |-> { Vec(1, 0, 0) },
     cameraPositions |-> { Vec(10, 0, 0), Vec(-2, -2, -4) },
     landing |-> "exact",
     targets |-> { Vec(4, 0, 0) },
     stepSizes |-> { 3 },
     closes |-> { "x_hd_detect" }]

\* One caller, few picks, targets near and at the reach of the iteration cap,
\* step sizes of every sign: the paths of handleMoveTo.
Converging ==
    [callers |-> {"c1"},
     moveApart |-> TRUE,
     configs |-> { Config(0, 0, ""), Config(0, 0, "world") },
     indexes |-> { NoIndex, Index(-1), Index(MaxIndex - 1) },
     detections |-> { Failed, Clusters(<<ClusterNear>>) },
     mayFail |-> { "gripper.Open", "loop.GetPose", "loop.Move", "final.GetPose" },
     holding |-> { TRUE },
     grabbed |-> { TRUE },
     history |-> TRUE,
     gripperPositions |-> { Vec(0, 0, 0), Vec(3, 0, 0) },
     cameraPositions |-> { Vec(10, 0, 0) },
     landing |-> "exact",
     targets |-> { Vec(4, 0, 0), Vec(MaxDistance - 1, 0, 0), Vec(MaxDistance, 0, 0) },
     stepSizes |-> { -1, 0, 1, 3 },
     closes |-> { "x_mv_final" }]

\* Two callers, few answers: the interleavings of the handlers.
Concurrent ==
    [callers |-> Callers,
     moveApart |-> TRUE,
     configs |-> { Config(0, 0, ""), Config(0, 0, "world") },
     indexes |-> { NoIndex, Index(-1), Index(1) },
     detections |-> { Failed, Clusters(<<>>), Clusters(<<ClusterNear>>) },
     mayFail |-> { "gripper.Open", "loop.Move" },
     holding |-> { TRUE },
     grabbed |-> { TRUE },
     history |-> FALSE,
     gripperPositions |-> { Vec(0, 0, 0) },
     cameraPositions |-> { Vec(10, 0, 0) },
     landing |-> "exact",
     targets |-> { Vec(4, 0, 0) },
     stepSizes |-> { 3 },
     closes |-> { "x_hd_detect" }]

\* ----------------------------------------------------------------- state

VARIABLES
    currentStatus,  \* s.currentStatus
    lastDetection,  \* s.lastDetection
    lastResult,     \* s.lastResult
    mu,             \* s.mu: the caller holding it, or NoOne
    cfg,            \* s.cfg
    env,            \* the environment of the run (fixed)
    cancelCtx,      \* s.cancelCtx: "active", or "canceled" once s.cancelFunc() ran
    alive,          \* FALSE once an unrecovered panic has ended the process
    pc,             \* each caller's position
    cmd,            \* each caller's command in flight
    loc,            \* each caller's local variables
    calls,          \* each caller's external calls of the current command, in order
    alone,          \* whether no other command was in flight during the current one
    sole,           \* whether no other command but status was in flight during it
    pre,            \* the session state each caller's current command started in
    everDetected,   \* whether a detection has ever been recorded
    ret             \* what each caller's finished command returned

vars == << currentStatus, lastDetection, lastResult, mu, cfg, env, cancelCtx, alive,
           pc, cmd, loc, calls, alone, sole, pre, everDetected, ret >>

session == << currentStatus, lastDetection, lastResult >>

\* The session state as a record.
Session(st, det, res) == [currentStatus |-> st, lastDetection |-> det, lastResult |-> res]

NoCmd == [entry |-> "", command |-> [isString |-> FALSE, s |-> ""], object_index |-> NoIndex,
          target |-> ZeroVec, stepSize |-> 0]

\* The zero values of a handler's locals.  With them, what the capabilities
\* answered in executePick: the advisory calls that failed, the grabbed signal
\* of Grab, and whether IsHoldingSomething succeeded and said yes; the
\* first position handleMoveTo's loop observed; and the clusters the
\* segmentation gave the handler's detection.
NoLoc == [objects |-> NilSlice, objectIndex |-> 0,
          obj |-> [Center |-> ZeroVec, PointCount |-> 0], result |-> NilMap,
          out |-> NilMap, err |-> NoErr, steps |-> 0, currentPos |-> ZeroVec,
          nextPoint |-> ZeroVec, moves |-> 0, queries |-> 0, clusters |-> 0,
          failed |-> {}, grabbed |-> FALSE, held |-> FALSE, startPos |-> ZeroVec,
          segmented |-> <<>>, redetected |-> [found |-> FALSE, Center |-> ZeroVec]]

NoRet == [returned |-> FALSE]

\* A command is in flight from its dispatch to its return (or panic).
InFlight(q) == pc[q] \notin {"idle", "done", "panicked"}

\* A handleMoveTo is in flight at q.
Moving(q) == InFlight(q) /\ cmd[q].entry = "handleMoveTo"

\* Fault: a constructor that leaves currentStatus at its zero value.
NewStatus_unset == ""

\* NewHandEyeTest: currentStatus "idle", lastDetection and lastResult zero (nil).
NewStatus == "idle"

\* The state NewHandEyeTest leaves, in environment e.
InitIn(e) ==
    /\ env = e
    /\ currentStatus = NewStatus
    /\ lastDetection = NilSlice
    /\ lastResult = NilMap
    /\ mu = NoOne
    /\ cfg \in e.configs
    /\ cancelCtx = "active"
    /\ alive = TRUE
    /\ pc = [p \in Callers |-> "idle"]
    /\ cmd = [p \in Callers |-> NoCmd]
    /\ loc = [p \in Callers |-> NoLoc]
    /\ calls = [p \in Callers |-> <<>>]
    /\ alone = [p \in Callers |-> FALSE]
    /\ sole = [p \in Callers |-> FALSE]
    /\ pre = [p \in Callers |-> Session(NewStatus, NilSlice, NilMap)]
    /\ everDetected = FALSE
    /\ ret = [p \in Callers |-> NoRet]

Init == InitIn(Sequential)

InitConcurrent == InitIn(Concurrent)

InitPicking == InitIn(Picking)

InitMoving == InitIn(Converging)

\* ------------------------------------------------------------- helpers

goto(p, l) == pc' = [pc EXCEPT ![p] = l]

\* A return of the handler: the caller gets value v and error e, and the
\* handler's locals are gone.  Noted with it: the status the handler leaves,
\* how many clusters the segmentation gave the handler's own detection and,
\* where the environment keeps the history, the objects the handler had.
return(p, v, e) ==
    /\ pc' = [pc EXCEPT ![p] = "done"]
    /\ loc' = [loc EXCEPT ![p] = NoLoc]
    /\ ret' = [ret EXCEPT ![p] =
                 [returned |-> TRUE, value |-> v, err |-> e, status |-> currentStatus',
                  clusters |-> loc[p].clusters,
                  objects |-> IF env.history THEN loc[p].objects ELSE NilSlice]]

\* An external call returned: it joins the log of the caller's command.
called(p, name) == calls' = [calls EXCEPT ![p] = Append(@, name)]

\* Whether a call at the site succeeds: it may fail where the environment
\* lets it.
succeeds(site) == {TRUE} \cup (IF site \in env.mayFail THEN {FALSE} ELSE {})

\* The answers of s.motion.Move at the site: (true, nil), (false, nil) or an error.
moveAnswers(site) == {"ok"} \cup (IF site \in env.mayFail THEN {"err", "no_path"} ELSE {})

\* Command c makes state transitions: detect, pick, pick_detected through
\* DoCommand, or a handleMoveTo.
Transitions(c) ==
    \/ c.entry = "handleMoveTo"
    \/ c.entry = "DoCommand" /\ c.command.isString /\ c.command.s \in {"detect", "pick", "pick_detected"}

\* A command that makes state transitions is in flight at q.
Operating(q) == InFlight(q) /\ Transitions(cmd[q])

\* A command starts at caller p: it is alone if no other is in flight, and every
\* command in flight stops being alone; the session state it starts in is noted where the
\* environment keeps the history.
starts(p) ==
    /\ alone' = [q \in Callers |-> IF q = p THEN \A r \in Callers \ {p} : ~InFlight(r)
                                   ELSE IF InFlight(q) THEN FALSE ELSE alone[q]]
    /\ sole' = [q \in Callers |-> IF q = p THEN \A r \in Callers \ {p} : ~Operating(r)
                                  ELSE IF InFlight(q) /\ Transitions(cmd'[p]) THEN FALSE
                                  ELSE sole[q]]
    /\ pre' = IF env.history
              THEN [pre EXCEPT ![p] = Session(currentStatus, lastDetection, lastResult)]
              ELSE pre
    /\ UNCHANGED everDetected

\* ------------------------------------------------ detection pipeline

RECURSIVE SumX(_), SumY(_), SumZ(_)
SumX(cloud) == IF cloud = <<>> THEN 0 ELSE Head(cloud).X + SumX(Tail(cloud))

SumY(cloud) == IF cloud = <<>> THEN 0 ELSE Head(cloud).Y + SumY(Tail(cloud))

SumZ(cloud) == IF cloud = <<>> THEN 0 ELSE Head(cloud).Z + SumZ(Tail(cloud))

\* Fault: an iteration that stops after the first point (its callback
\* returning false), the sum still divided by the size of the cloud.
computeCenter_stopping(cloud) ==
    IF Len(cloud) = 0 THEN ZeroVec
    ELSE Vec(Head(cloud).X \div Len(cloud), Head(cloud).Y \div Len(cloud),
             Head(cloud).Z \div Len(cloud))

\* computeCenter: the mean position of the cloud's points, r3.Vector{} for an
\* empty cloud.  The clusters of this model have means that are whole numbers,
\* so the float64 division is the exact quotient.
computeCenter(cloud) ==
    IF Len(cloud) = 0 THEN ZeroVec
    ELSE Vec(SumX(cloud) \div Len(cloud), SumY(cloud) \div Len(cloud),
             SumZ(cloud) \div Len(cloud))

\* Fault: a point-count filter that also rejects a cluster at the threshold.
detectOne_exclusive(detected, obj, c) ==
    LET center == computeCenter(obj) IN
    IF c.MaxDepthMm > 0 /\ center.Z > c.MaxDepthMm THEN detected
    ELSE IF c.MaxPointCount > 0 /\ Len(obj) >= c.MaxPointCount THEN detected
    ELSE append(detected, [Center |-> center, PointCount |-> Len(obj)])

\* One pass of the loop body of detectObjects: the cluster is skipped by
\* either post-filter, or appended.
detectOne(detected, obj, c) ==
    LET center == computeCenter(obj) IN
    IF c.MaxDepthMm > 0 /\ center.Z > c.MaxDepthMm THEN detected
    ELSE IF c.MaxPointCount > 0 /\ Len(obj) > c.MaxPointCount THEN detected
    ELSE append(detected, [Center |-> center, PointCount |-> Len(obj)])

RECURSIVE detectLoop(_, _, _)
detectLoop(detected, objects, c) ==
    IF objects = <<>> THEN detected
    ELSE detectLoop(detectOne(detected, Head(objects), c), Tail(objects), c)

\* Fault: a detectObjects that treats an empty outcome as an error.
detectObjects_strict(o, c) ==
    IF o.checkValid # NoErr THEN [objects |-> NilSlice, err |-> "invalid segmentation config"]
    ELSE IF o.clustering # NoErr THEN [objects |-> NilSlice, err |-> "segmentation failed"]
    ELSE IF len(detectLoop(NilSlice, o.clusters, c)) = 0
    THEN [objects |-> NilSlice, err |-> "no objects detected"]
    ELSE [objects |-> detectLoop(NilSlice, o.clusters, c), err |-> NoErr]

\* detectObjects, given what the segmentation capability does this time:
\* (objects, err).  No clusters, and no surviving cluster, both give nil.
detectObjects(o, c) ==
    IF o.checkValid # NoErr THEN [objects |-> NilSlice, err |-> "invalid segmentation config"]
    ELSE IF o.clustering # NoErr THEN [objects |-> NilSlice, err |-> "segmentation failed"]
    ELSE IF Len(o.clusters) = 0 THEN [objects |-> NilSlice, err |-> NoErr]
    ELSE [objects |-> detectLoop(NilSlice, o.clusters, c), err |-> NoErr]

\* ------------------------------------------------------------- s.mu

\* Where each s.mu.Lock() leads: the critical section it opens.
LockSites ==
    [ hd_lock1 |-> "hd_set1", hd_lock2e |-> "hd_set2e", hd_lock2 |-> "hd_set2",
      hp_lock1 |-> "hp_set1", hp_lock2e |-> "hp_set2e", hp_lock3 |-> "hp_set3",
      hp_lock4 |-> "hp_set4", hp_lock5 |-> "hp_set5",
      hpd_lock1 |-> "hpd_read", hpd_lock2 |-> "hpd_set2",
      ep_lock1 |-> "ep_set1", hs_lock |-> "hs_read",
      mv_lock1 |-> "mv_set1", mv_lock2 |-> "mv_set2" ]

\* s.mu.Lock(): blocks until the mutex is free.
Lock(p) ==
    /\ alive
    /\ pc[p] \in DOMAIN LockSites
    /\ mu = NoOne
    /\ mu' = p
    /\ goto(p, LockSites[pc[p]])
    /\ UNCHANGED << session, cfg, env, cancelCtx, alive, cmd, loc, calls, alone, sole, pre, everDetected, ret >>

\* Fault: an Unlock that leaves the mutex held.
Unlock_missing(p) == mu = p /\ mu' = mu

\* s.mu.Unlock() by the holder.
Unlock(p) == mu = p /\ mu' = NoOne

\* ---------------------------------------------------------------- Close

\* Close(ctx): s.cancelFunc() cancels s.cancelCtx; nothing else of the service
\* changes.  The host calls it while some caller is where the environment
\* says, and sends no command to a service it has closed.
Close ==
    /\ alive
    /\ \E p \in env.callers : pc[p] \in env.closes
    /\ cancelCtx = "active"
    /\ cancelCtx' = "canceled"
    /\ UNCHANGED << session, mu, cfg, env, alive, pc, cmd, loc, calls, alone, sole, pre,
                    everDetected, ret >>

\* The context a call of an external capability at position l is made under:
\* each handler passes down the ctx parameter of DoCommand, and s.cancelCtx is
\* passed to no call.
callContext(l) == "ctx"

\* <-c.Done() is ready: s.cancelCtx is done once s.cancelFunc() ran; ctx is the
\* caller's own context, which s.cancelFunc() does not cancel.
contextDone(c) == c = "s.cancelCtx" /\ cancelCtx = "canceled"

\* ------------------------------------------------------------ DoCommand

\* cmd["object_index"].(float64), int(idx); 0 when absent.
objectIndexOf(arg) == IF arg.present THEN arg.val ELSE 0

\* Fault: a switch whose default branch runs the detection.
dispatch_defaulting(command) ==
    CASE command = "pick" -> "hp_lock1"
      [] command = "pick_detected" -> "hpd_lock1"
      [] command = "status" -> "hs_lock"
      [] OTHER -> "hd_lock1"

\* The handler the switch of DoCommand selects: its first label, or "" for the
\* default branch.
dispatch(command) ==
    CASE command = "detect" -> "hd_lock1"
      [] command = "pick" -> "hp_lock1"
      [] command = "pick_detected" -> "hpd_lock1"
      [] command = "status" -> "hs_lock"
      [] OTHER -> ""

\* DoCommand(ctx, cmd): a missing or non-string command and an unknown command
\* are refused at once; the others enter their handler.
DoCommand(p) ==
    /\ alive
    /\ p \in env.callers
    /\ cancelCtx = "active"
    /\ pc[p] = "idle"
    /\ \E c \in CommandFields, i \in env.indexes :
        /\ c.s \in {"pick", "pick_detected"} \/ i = NoIndex
        /\ (env.moveApart /\ c.s # "status") => \A q \in Callers : ~Moving(q)
        /\ cmd' = [cmd EXCEPT ![p] = [entry |-> "DoCommand", command |-> c, object_index |-> i,
                                      target |-> ZeroVec, stepSize |-> 0]]
        /\ UNCHANGED << session, mu, cfg, env, cancelCtx, alive >>
        /\ calls' = [calls EXCEPT ![p] = <<>>]
        /\ starts(p)
        /\ IF ~c.isString THEN return(p, NilMap, ErrMissingCommand)
           ELSE IF dispatch(c.s) = "" THEN return(p, NilMap, ErrUnknownCommand)
           ELSE /\ goto(p, dispatch(c.s))
                /\ loc' = [loc EXCEPT ![p] = [NoLoc EXCEPT !.objectIndex = objectIndexOf(i)]]
                /\ ret' = [ret EXCEPT ![p] = NoRet]

\* The caller has its answer and is free to send the next command.
Received(p) ==
    /\ alive
    /\ pc[p] = "done"
    /\ goto(p, "idle")
    /\ cmd' = [cmd EXCEPT ![p] = NoCmd]
    /\ calls' = [calls EXCEPT ![p] = <<>>]
    /\ alone' = [alone EXCEPT ![p] = FALSE]
    /\ sole' = [sole EXCEPT ![p] = FALSE]
    /\ pre' = [pre EXCEPT ![p] = Session(NewStatus, NilSlice, NilMap)]
    /\ UNCHANGED everDetected
    /\ ret' = [ret EXCEPT ![p] = NoRet]
    /\ UNCHANGED << session, mu, cfg, env, cancelCtx, alive, loc >>

\* ----------------------------------------------------------- handleDetect

\* Fault: a detect that starts without its state transition.
handleDetect_begin_silent(p) ==
    /\ alive
    /\ pc[p] = "hd_set1"
    /\ Unlock(p)
    /\ goto(p, "x_hd_detect")
    /\ UNCHANGED << session, cfg, env, cancelCtx, alive, cmd, loc, calls, alone, sole, pre, everDetected, ret >>

\* s.currentStatus = "detecting"; s.mu.Unlock(); then detectObjects is called.
handleDetect_begin(p) ==
    /\ alive
    /\ pc[p] = "hd_set1"
    /\ currentStatus' = "detecting"
    /\ Unlock(p)
    /\ goto(p, "x_hd_detect")
    /\ UNCHANGED << lastDetection, lastResult, cfg, env, cancelCtx, alive, cmd, loc, calls, alone, sole, pre, everDetected, ret >>

\* detectObjects(ctx, s.camera, s.cfg) returns.
handleDetect_detect(p) ==
    /\ alive
    /\ pc[p] = "x_hd_detect"
    /\ \E o \in env.detections :
        LET r == detectObjects(o, cfg) IN
        /\ loc' = [loc EXCEPT ![p].objects = r.objects, ![p].err = r.err,
                               ![p].clusters = Len(o.clusters),
                               ![p].segmented = o.clusters]
        /\ goto(p, IF r.err # NoErr THEN "hd_lock2e" ELSE "hd_lock2")
    /\ called(p, "detectObjects")
    /\ UNCHANGED << session, mu, cfg, env, cancelCtx, alive, cmd, alone, sole, pre, everDetected, ret >>

\* Fault: a failure branch that drops the recorded detection.
handleDetect_fail_forgetting(p) ==
    /\ alive
    /\ pc[p] = "hd_set2e"
    /\ currentStatus' = "idle"
    /\ lastDetection' = NilSlice
    /\ Unlock(p)
    /\ UNCHANGED << lastResult, cfg, env, cancelCtx, alive, cmd, calls, alone, sole, pre, everDetected >>
    /\ return(p, NilMap, ErrDetectionFailed)

\* The failure branch: status back to idle, the error returned.
handleDetect_fail(p) ==
    /\ alive
    /\ pc[p] = "hd_set2e"
    /\ currentStatus' = "idle"
    /\ Unlock(p)
    /\ UNCHANGED << lastDetection, lastResult, cfg, env, cancelCtx, alive, cmd, calls, alone, sole, pre, everDetected >>
    /\ return(p, NilMap, ErrDetectionFailed)

\* The response of handleDetect: the object list and its length.
detectResponse(objects) ==
    [isNil |-> FALSE,
     objects |-> [i \in 1 .. len(objects) |->
                    [index |-> i - 1,
                     point_count |-> objects.elems[i].PointCount,
                     center_x_mm |-> objects.elems[i].Center.X,
                     center_y_mm |-> objects.elems[i].Center.Y,
                     center_z_mm |-> objects.elems[i].Center.Z]],
     count |-> len(objects)]

\* The success branch: the detection is recorded, status back to idle.
handleDetect_record(p) ==
    /\ alive
    /\ pc[p] = "hd_set2"
    /\ lastDetection' = loc[p].objects
    /\ everDetected' = (everDetected \/ env.history)
    /\ currentStatus' = "idle"
    /\ Unlock(p)
    /\ UNCHANGED << lastResult, cfg, env, cancelCtx, alive, cmd, calls, alone, sole, pre >>
    /\ return(p, detectResponse(loc[p].objects), NoErr)

\* ----------------------------------------------------------- handleStatus

\* The map handleStatus builds under the lock.
statusResponse(status, result, detection) ==
    [isNil |-> FALSE,
     status |-> status,
     has_last_result |-> ~result.isNil,
     last_result |-> result,
     has_detected_objects |-> ~detection.isNil,
     detected_objects |-> len(detection)]

\* Fault: a handleStatus that releases the lock after its first read.
handleStatus_status_unlocking(p) ==
    /\ alive
    /\ pc[p] = "hs_read"
    /\ loc' = [loc EXCEPT ![p].out = statusResponse(currentStatus, NilMap, NilSlice)]
    /\ Unlock(p)
    /\ goto(p, "hs_result")
    /\ UNCHANGED << session, cfg, env, cancelCtx, alive, cmd, calls, alone, sole, pre, everDetected, ret >>

\* handleStatus, under the lock: result := map{"status": s.currentStatus}.
handleStatus_status(p) ==
    /\ alive
    /\ pc[p] = "hs_read"
    /\ loc' = [loc EXCEPT ![p].out = statusResponse(currentStatus, NilMap, NilSlice)]
    /\ goto(p, "hs_result")
    /\ UNCHANGED << session, mu, cfg, env, cancelCtx, alive, cmd, calls, alone, sole, pre, everDetected, ret >>

\* if s.lastResult != nil { result["last_result"] = s.lastResult }
handleStatus_lastResult(p) ==
    /\ alive
    /\ pc[p] = "hs_result"
    /\ loc' = [loc EXCEPT ![p].out = [@ EXCEPT !.has_last_result = ~lastResult.isNil,
                                               !.last_result = lastResult]]
    /\ goto(p, "hs_detection")
    /\ UNCHANGED << session, mu, cfg, env, cancelCtx, alive, cmd, calls, alone, sole, pre, everDetected, ret >>

\* if s.lastDetection != nil { result["detected_objects"] = len(s.lastDetection) };
\* return result, nil, the deferred Unlock releasing the lock.
handleStatus(p) ==
    /\ alive
    /\ pc[p] = "hs_detection"
    /\ Unlock(p)
    /\ UNCHANGED << session, cfg, env, cancelCtx, alive, cmd, calls, alone, sole, pre, everDetected >>
    /\ return(p, [loc[p].out EXCEPT !.has_detected_objects = ~lastDetection.isNil,
                                    !.detected_objects = len(lastDetection)], NoErr)

\* ------------------------------------------------------------- handlePick

\* s.currentStatus = "detecting"; s.mu.Unlock(); then detectObjects is called.
handlePick_begin(p) ==
    /\ alive
    /\ pc[p] = "hp_set1"
    /\ currentStatus' = "detecting"
    /\ Unlock(p)
    /\ goto(p, "x_hp_detect")
    /\ UNCHANGED << lastDetection, lastResult, cfg, env, cancelCtx, alive, cmd, loc, calls, alone, sole, pre, everDetected, ret >>

\* detectObjects(ctx, s.camera, s.cfg) returns.
handlePick_detect(p) ==
    /\ alive
    /\ pc[p] = "x_hp_detect"
    /\ \E o \in env.detections :
        LET r == detectObjects(o, cfg) IN
        /\ loc' = [loc EXCEPT ![p].objects = r.objects, ![p].err = r.err,
                               ![p].clusters = Len(o.clusters),
                               ![p].segmented = o.clusters]
        /\ goto(p, IF r.err # NoErr THEN "hp_lock2e" ELSE "hp_lock3")
    /\ called(p, "detectObjects")
    /\ UNCHANGED << session, mu, cfg, env, cancelCtx, alive, cmd, alone, sole, pre, everDetected, ret >>

\* Fault: a failed detection that forgets the detection on record.
handlePick_fail_clearing(p) ==
    /\ alive
    /\ pc[p] = "hp_set2e"
    /\ currentStatus' = "idle"
    /\ lastDetection' = NilSlice
    /\ Unlock(p)
    /\ UNCHANGED << lastResult, cfg, env, cancelCtx, alive, cmd, calls, alone, sole, pre, everDetected >>
    /\ return(p, NilMap, ErrDetectionFailed)

\* Detection failed: status back to idle, the error returned.
handlePick_fail(p) ==
    /\ alive
    /\ pc[p] = "hp_set2e"
    /\ currentStatus' = "idle"
    /\ Unlock(p)
    /\ UNCHANGED << lastDetection, lastResult, cfg, env, cancelCtx, alive, cmd, calls, alone, sole, pre, everDetected >>
    /\ return(p, NilMap, ErrDetectionFailed)

\* Fault: a pick that adds its detection to the one on record.
handlePick_record_appending(p) ==
    /\ alive
    /\ pc[p] = "hp_set3"
    /\ lastDetection' = [isNil |-> lastDetection.isNil /\ loc[p].objects.isNil,
                         elems |-> lastDetection.elems \o loc[p].objects.elems]
    /\ everDetected' = (everDetected \/ env.history)
    /\ Unlock(p)
    /\ goto(p, "hp_check")
    /\ UNCHANGED << currentStatus, lastResult, cfg, env, cancelCtx, alive, cmd, loc, calls, alone, sole, pre, ret >>

\* s.lastDetection = objects, under the lock.
handlePick_record(p) ==
    /\ alive
    /\ pc[p] = "hp_set3"
    /\ lastDetection' = loc[p].objects
    /\ everDetected' = (everDetected \/ env.history)
    /\ Unlock(p)
    /\ goto(p, "hp_check")
    /\ UNCHANGED << currentStatus, lastResult, cfg, env, cancelCtx, alive, cmd, loc, calls, alone, sole, pre, ret >>

\* What the index test and the index expression objects[objectIndex] come to:
\* the range error, a runtime panic (index out of range) or the element.
indexOutcome(objectIndex, objects) ==
    IF objectIndex >= len(objects) THEN "range_error"
    ELSE IF objectIndex < 0 THEN "panic"
    ELSE "element"

\* if objectIndex >= len(objects) { ... }; s.executePick(ctx, objects[objectIndex])
handlePick_check(p) ==
    /\ alive
    /\ pc[p] = "hp_check"
    /\ LET r == indexOutcome(loc[p].objectIndex, loc[p].objects) IN
        /\ goto(p, CASE r = "range_error" -> "hp_lock4"
                     [] r = "panic" -> "panicked"
                     [] OTHER -> "ep_lock1")
        /\ loc' = [loc EXCEPT ![p].obj =
                     IF r = "element" THEN loc[p].objects.elems[loc[p].objectIndex + 1] ELSE @]
    /\ UNCHANGED << session, mu, cfg, env, cancelCtx, alive, cmd, calls, alone, sole, pre, everDetected, ret >>

\* Fault: an out-of-range branch that records its (absent) result.
handlePick_range_recording(p) ==
    /\ alive
    /\ pc[p] = "hp_set4"
    /\ currentStatus' = "idle"
    /\ lastResult' = NilMap
    /\ Unlock(p)
    /\ UNCHANGED << lastDetection, cfg, env, cancelCtx, alive, cmd, calls, alone, sole, pre, everDetected >>
    /\ return(p, NilMap, ErrOutOfRange)

\* The index is out of range: status back to idle, the error returned.
handlePick_range(p) ==
    /\ alive
    /\ pc[p] = "hp_set4"
    /\ currentStatus' = "idle"
    /\ Unlock(p)
    /\ UNCHANGED << lastDetection, lastResult, cfg, env, cancelCtx, alive, cmd, calls, alone, sole, pre, everDetected >>
    /\ return(p, NilMap, ErrOutOfRange)

\* After executePick: status idle, s.lastResult = result; return result, err.
handlePick_finish(p) ==
    /\ alive
    /\ pc[p] = "hp_set5"
    /\ currentStatus' = "idle"
    /\ lastResult' = loc[p].out
    /\ Unlock(p)
    /\ UNCHANGED << lastDetection, cfg, env, cancelCtx, alive, cmd, calls, alone, sole, pre, everDetected >>
    /\ return(p, loc[p].out, loc[p].err)

\* ----------------------------------------------------- handlePickDetected

\* Fault: a pickDetected that announces the pick before its checks.
handlePickDetected_read_marking(p) ==
    /\ alive
    /\ pc[p] = "hpd_read"
    /\ loc' = [loc EXCEPT ![p].objects = lastDetection]
    /\ currentStatus' = "picking"
    /\ Unlock(p)
    /\ goto(p, "hpd_check")
    /\ UNCHANGED << lastDetection, lastResult, cfg, env, cancelCtx, alive, cmd, calls, alone, sole, pre,
                    everDetected, ret >>

\* objects := s.lastDetection, under the lock.
handlePickDetected_read(p) ==
    /\ alive
    /\ pc[p] = "hpd_read"
    /\ loc' = [loc EXCEPT ![p].objects = lastDetection]
    /\ Unlock(p)
    /\ goto(p, "hpd_check")
    /\ UNCHANGED << session, cfg, env, cancelCtx, alive, cmd, calls, alone, sole, pre, everDetected, ret >>

\* Fault: a pickDetected that tests and indexes s.lastDetection as it is now.
handlePickDetected_check_rereading(p) ==
    /\ alive
    /\ pc[p] = "hpd_check"
    /\ UNCHANGED << session, mu, cfg, env, cancelCtx, alive, cmd, calls, alone, sole, pre, everDetected >>
    /\ IF loc[p].objects.isNil
       THEN return(p, NilMap, ErrNoPreviousDetection)
       ELSE LET r == indexOutcome(loc[p].objectIndex, lastDetection) IN
            CASE r = "range_error" -> return(p, NilMap, ErrOutOfRange)
              [] r = "panic" -> goto(p, "panicked") /\ UNCHANGED << loc, ret >>
              [] OTHER ->
                   /\ goto(p, "ep_lock1")
                   /\ loc' = [loc EXCEPT ![p].obj = lastDetection.elems[loc[p].objectIndex + 1]]
                   /\ UNCHANGED ret

\* if objects == nil { ... }; if objectIndex >= len(objects) { ... };
\* s.executePick(ctx, objects[objectIndex])
handlePickDetected_check(p) ==
    /\ alive
    /\ pc[p] = "hpd_check"
    /\ UNCHANGED << session, mu, cfg, env, cancelCtx, alive, cmd, calls, alone, sole, pre, everDetected >>
    /\ IF loc[p].objects.isNil
       THEN return(p, NilMap, ErrNoPreviousDetection)
       ELSE LET r == indexOutcome(loc[p].objectIndex, loc[p].objects) IN
            CASE r = "range_error" -> return(p, NilMap, ErrOutOfRange)
              [] r = "panic" -> goto(p, "panicked") /\ UNCHANGED << loc, ret >>
              [] OTHER ->
                   /\ goto(p, "ep_lock1")
                   /\ loc' = [loc EXCEPT ![p].obj = loc[p].objects.elems[loc[p].objectIndex + 1]]
                   /\ UNCHANGED ret

\* After executePick: status idle, s.lastResult = result; return result, err.
handlePickDetected_finish(p) ==
    /\ alive
    /\ pc[p] = "hpd_set2"
    /\ currentStatus' = "idle"
    /\ lastResult' = loc[p].out
    /\ Unlock(p)
    /\ UNCHANGED << lastDetection, cfg, env, cancelCtx, alive, cmd, calls, alone, sole, pre, everDetected >>
    /\ return(p, loc[p].out, loc[p].err)

\* ------------------------------------------------------- runtime panic

\* The panic of an index expression unwinds handlePick / handlePickDetected and
\* DoCommand, none of which recovers; no lock is held there.  What follows is
\* the host's affair: run from the command line the process ends ...
panic_exit(p) ==
    /\ alive
    /\ pc[p] = "panicked"
    /\ alive' = FALSE
    /\ UNCHANGED << session, mu, cfg, env, cancelCtx, pc, cmd, loc, calls, alone, sole, pre, everDetected, ret >>

\* ... and served as a module the RPC layer turns the panic into a failed
\* request, and the service lives on with the state the handler left.
panic_recovered(p) ==
    /\ alive
    /\ pc[p] = "panicked"
    /\ goto(p, "idle")
    /\ cmd' = [cmd EXCEPT ![p] = NoCmd]
    /\ loc' = [loc EXCEPT ![p] = NoLoc]
    /\ calls' = [calls EXCEPT ![p] = <<>>]
    /\ alone' = [alone EXCEPT ![p] = FALSE]
    /\ sole' = [sole EXCEPT ![p] = FALSE]
    /\ pre' = [pre EXCEPT ![p] = Session(NewStatus, NilSlice, NilMap)]
    /\ UNCHANGED everDetected
    /\ UNCHANGED << session, mu, cfg, env, cancelCtx, alive, ret >>

\* ------------------------------------------------------------ executePick

\* vecNorm(v) squared: vecNorm is its square root.
vecNorm2(v) == v.X * v.X + v.Y * v.Y + v.Z * v.Z

vecSub(a, b) == Vec(a.X - b.X, a.Y - b.Y, a.Z - b.Z)

vecAdd(a, b) == Vec(a.X + b.X, a.Y + b.Y, a.Z + b.Z)

\* detectionFrame := s.cfg.DetectionFrame, s.cfg.Camera when empty.
detectionFrame(c) == IF c.DetectionFrame = "" THEN c.Camera ELSE c.DetectionFrame

isWorldFrame(c) == detectionFrame(c) = "world"

\* &pickResult{DetectedPosition: obj.Center, DetectionFrame: detectionFrame}
newPickResult(obj, c) ==
    [Success |-> FALSE, IsHolding |-> FALSE,
     DetectedPosition |-> obj.Center, DetectionFrame |-> detectionFrame(c),
     ObjectPositionWorldFrame |-> ZeroVec, GripperPositionWorldFrame |-> ZeroVec,
     ApproachOffsetMm |-> ZeroVec, WorldFrameOffsetMm |-> ZeroVec,
     StepsCompleted |-> <<>>]

\* (r *pickResult) toMap(); the "total" entries are kept squared.
toMap(r) ==
    [isNil |-> FALSE,
     success |-> r.Success,
     is_holding |-> r.IsHolding,
     detected_position |-> [pos |-> r.DetectedPosition, frame |-> r.DetectionFrame],
     object_position_world_frame |-> r.ObjectPositionWorldFrame,
     gripper_position_world_frame |-> r.GripperPositionWorldFrame,
     approach_offset_mm |-> [v |-> r.ApproachOffsetMm, total2 |-> vecNorm2(r.ApproachOffsetMm)],
     world_frame_offset_mm |-> [v |-> r.WorldFrameOffsetMm, total2 |-> vecNorm2(r.WorldFrameOffsetMm)],
     steps_completed |-> r.StepsCompleted]

\* result.StepsCompleted = append(result.StepsCompleted, name)
stepDone(r, name) == [r EXCEPT !.StepsCompleted = Append(@, name)]

\* Where executePick returns to: the statement after the call in its caller.
returnTo(p) == IF cmd[p].command.s = "pick" THEN "hp_lock5" ELSE "hpd_lock2"

\* return nil, fmt.Errorf(...): a fatal step failed; the result built so far
\* is dropped.
fatal(p, msg) ==
    /\ loc' = [loc EXCEPT ![p].result = NilMap, ![p].out = NilMap, ![p].err = msg]
    /\ goto(p, returnTo(p))

\* s.currentStatus = "picking"; s.mu.Unlock(); the result is allocated and
\* gripper.Open is called.
executePick_begin(p) ==
    /\ alive
    /\ pc[p] = "ep_set1"
    /\ currentStatus' = "picking"
    /\ Unlock(p)
    /\ loc' = [loc EXCEPT ![p].result = newPickResult(loc[p].obj, cfg)]
    /\ goto(p, "x_open")
    /\ UNCHANGED << lastDetection, lastResult, cfg, env, cancelCtx, alive, cmd, calls, alone, sole, pre, everDetected, ret >>

\* Step 1: s.gripper.Open returns.  Then the approach pose is computed, which
\* in world frame asks the motion service for the gripper's orientation.
executePick_open(p) ==
    /\ alive
    /\ pc[p] = "x_open"
    /\ \E ok \in succeeds("gripper.Open") :
        IF ~ok THEN fatal(p, "failed to open gripper")
        ELSE /\ loc' = [loc EXCEPT ![p].result = stepDone(@, "open_gripper")]
             /\ goto(p, IF isWorldFrame(cfg) THEN "x_approach_pose" ELSE "x_approach_move")
    /\ called(p, "gripper.Open")
    /\ UNCHANGED << session, mu, cfg, env, cancelCtx, alive, cmd, alone, sole, pre, everDetected, ret >>

\* Step 2 (world frame): s.motion.GetPose returns; on an error the default
\* orientation is used.
executePick_approachPose(p) ==
    /\ alive
    /\ pc[p] = "x_approach_pose"
    /\ \E ok \in succeeds("approach.GetPose") :
        /\ loc' = [loc EXCEPT ![p].failed = IF ok THEN @ ELSE @ \cup {"approach.GetPose"}]
        /\ goto(p, "x_approach_move")
    /\ called(p, "motion.GetPose")
    /\ UNCHANGED << session, mu, cfg, env, cancelCtx, alive, cmd, alone, sole, pre, everDetected, ret >>

\* Fault: an approach move whose planner found no path is passed over.
executePick_approach_advisory(p) ==
    /\ alive
    /\ pc[p] = "x_approach_move"
    /\ \E r \in moveAnswers("approach.Move") :
        CASE r = "err" -> fatal(p, "failed to move to approach position")
          [] r = "no_path" -> goto(p, "x_redetect") /\ UNCHANGED loc
          [] OTHER -> /\ loc' = [loc EXCEPT ![p].result = stepDone(@, "approach")]
                      /\ goto(p, "x_redetect")
    /\ called(p, "motion.Move")
    /\ UNCHANGED << session, mu, cfg, env, cancelCtx, alive, cmd, alone, sole, pre, everDetected, ret >>

\* Step 3: s.motion.Move to the approach pose returns (success, err).
executePick_approach(p) ==
    /\ alive
    /\ pc[p] = "x_approach_move"
    /\ \E r \in moveAnswers("approach.Move") :
        CASE r = "err" -> fatal(p, "failed to move to approach position")
          [] r = "no_path" -> fatal(p, "motion planner could not find path to approach position")
          [] OTHER -> /\ loc' = [loc EXCEPT ![p].result = stepDone(@, "approach")]
                      /\ goto(p, "x_redetect")
    /\ called(p, "motion.Move")
    /\ UNCHANGED << session, mu, cfg, env, cancelCtx, alive, cmd, alone, sole, pre, everDetected, ret >>

\* redetectedObjects[0] when the re-detection returned one: what a
\* detectObjects result r gives the offset measurement.
firstObject(r) ==
    IF r.err = NoErr /\ len(r.objects) > 0
    THEN [found |-> TRUE, Center |-> r.objects.elems[1].Center]
    ELSE [found |-> FALSE, Center |-> ZeroVec]

\* Fault: an offset measured from the re-detected center to the original one.
executePick_redetect_reversed(p) ==
    /\ alive
    /\ pc[p] = "x_redetect"
    /\ \E o \in env.detections :
        LET r == detectObjects(o, cfg)
            res == loc[p].result
            measured ==
                IF r.err = NoErr /\ len(r.objects) > 0
                THEN [res EXCEPT !.ApproachOffsetMm =
                        vecSub(loc[p].obj.Center, r.objects.elems[1].Center)]
                ELSE res
        IN  loc' = [loc EXCEPT ![p].result = stepDone(measured, "re_detect"),
                               ![p].failed = IF r.err = NoErr THEN @ ELSE @ \cup {"re_detect"},
                               ![p].redetected = firstObject(r)]
    /\ goto(p, "x_endpos")
    /\ called(p, "detectObjects")
    /\ UNCHANGED << session, mu, cfg, env, cancelCtx, alive, cmd, alone, sole, pre, everDetected, ret >>

\* Fault: a re-detection whose step is marked only when it succeeded.
executePick_redetect_conditional(p) ==
    /\ alive
    /\ pc[p] = "x_redetect"
    /\ \E o \in env.detections :
        LET r == detectObjects(o, cfg)
            res == loc[p].result
            measured ==
                IF r.err = NoErr /\ len(r.objects) > 0
                THEN [res EXCEPT !.ApproachOffsetMm =
                        vecSub(r.objects.elems[1].Center, loc[p].obj.Center)]
                ELSE res
        IN  loc' = [loc EXCEPT ![p].result = IF r.err = NoErr
                                              THEN stepDone(measured, "re_detect")
                                              ELSE measured,
                               ![p].failed = IF r.err = NoErr THEN @ ELSE @ \cup {"re_detect"},
                               ![p].redetected = firstObject(r)]
    /\ goto(p, "x_endpos")
    /\ called(p, "detectObjects")
    /\ UNCHANGED << session, mu, cfg, env, cancelCtx, alive, cmd, alone, sole, pre, everDetected, ret >>

\* Step 4: the re-detection returns; with an object, the approach offset is
\* its first center minus the picked object's; the step is marked either way.
executePick_redetect(p) ==
    /\ alive
    /\ pc[p] = "x_redetect"
    /\ \E o \in env.detections :
        LET r == detectObjects(o, cfg)
            res == loc[p].result
            measured ==
                IF r.err = NoErr /\ len(r.objects) > 0
                THEN [res EXCEPT !.ApproachOffsetMm =
                        vecSub(r.objects.elems[1].Center, loc[p].obj.Center)]
                ELSE res
        IN  loc' = [loc EXCEPT ![p].result = stepDone(measured, "re_detect"),
                               ![p].failed = IF r.err = NoErr THEN @ ELSE @ \cup {"re_detect"},
                               ![p].redetected = firstObject(r)]
    /\ goto(p, "x_endpos")
    /\ called(p, "detectObjects")
    /\ UNCHANGED << session, mu, cfg, env, cancelCtx, alive, cmd, alone, sole, pre, everDetected, ret >>

\* Step 5: s.arm.EndPosition returns.
executePick_endPosition(p) ==
    /\ alive
    /\ pc[p] = "x_endpos"
    /\ \E ok \in succeeds("arm.EndPosition") :
        IF ~ok THEN fatal(p, "failed to get arm position")
        ELSE goto(p, "x_grasp_move") /\ UNCHANGED loc
    /\ called(p, "arm.EndPosition")
    /\ UNCHANGED << session, mu, cfg, env, cancelCtx, alive, cmd, alone, sole, pre, everDetected, ret >>

\* Fault: a grasp move whose failure is passed over.
executePick_grasp_lenient(p) ==
    /\ alive
    /\ pc[p] = "x_grasp_move"
    /\ \E ok \in succeeds("grasp.MoveToPosition") :
        /\ loc' = [loc EXCEPT ![p].result = IF ok THEN stepDone(@, "grasp_position") ELSE @]
        /\ goto(p, "x_gripper_pose")
    /\ called(p, "arm.MoveToPosition")
    /\ UNCHANGED << session, mu, cfg, env, cancelCtx, alive, cmd, alone, sole, pre, everDetected, ret >>

\* Step 5: s.arm.MoveToPosition to the grasp pose returns.
executePick_grasp(p) ==
    /\ alive
    /\ pc[p] = "x_grasp_move"
    /\ \E ok \in succeeds("grasp.MoveToPosition") :
        IF ~ok THEN fatal(p, "failed to move to grasp position")
        ELSE /\ loc' = [loc EXCEPT ![p].result = stepDone(@, "grasp_position")]
             /\ goto(p, "x_gripper_pose")
    /\ called(p, "arm.MoveToPosition")
    /\ UNCHANGED << session, mu, cfg, env, cancelCtx, alive, cmd, alone, sole, pre, everDetected, ret >>

\* if result.ObjectPositionWorldFrame != (r3.Vector{}) { WorldFrameOffsetMm = ... }
worldFrameOffset(res, gripperPos) ==
    IF res.ObjectPositionWorldFrame # ZeroVec
    THEN [res EXCEPT !.WorldFrameOffsetMm = vecSub(gripperPos, res.ObjectPositionWorldFrame)]
    ELSE res

\* Step 6: s.motion.GetPose of the gripper returns.  On an error the comparison
\* is skipped; in world frame the object's position is the detected one;
\* otherwise the camera's pose is asked for.
executePick_gripperPose(p) ==
    /\ alive
    /\ pc[p] = "x_gripper_pose"
    /\ \E ok \in succeeds("gripper.GetPose"), gripperPos \in env.gripperPositions :
        LET res == [loc[p].result EXCEPT !.GripperPositionWorldFrame = gripperPos] IN
        IF ~ok
        THEN /\ loc' = [loc EXCEPT ![p].failed = @ \cup {"gripper.GetPose"}]
             /\ goto(p, "x_grab")
        ELSE IF isWorldFrame(cfg)
        THEN /\ loc' = [loc EXCEPT ![p].currentPos = gripperPos,
                                   ![p].result = worldFrameOffset(
                                       [res EXCEPT !.ObjectPositionWorldFrame = loc[p].obj.Center],
                                       gripperPos)]
             /\ goto(p, "x_grab")
        ELSE /\ loc' = [loc EXCEPT ![p].currentPos = gripperPos, ![p].result = res]
             /\ goto(p, "x_camera_pose")
    /\ called(p, "motion.GetPose")
    /\ UNCHANGED << session, mu, cfg, env, cancelCtx, alive, cmd, alone, sole, pre, everDetected, ret >>

\* Step 6 (camera frame): s.motion.GetPose of the camera returns; the object's
\* world position is the camera pose composed with the detected center (the
\* camera poses of this model have the identity orientation).
executePick_cameraPose(p) ==
    /\ alive
    /\ pc[p] = "x_camera_pose"
    /\ \E ok \in succeeds("camera.GetPose"), cameraPos \in env.cameraPositions :
        LET res == loc[p].result
            located == IF ok THEN [res EXCEPT !.ObjectPositionWorldFrame =
                                     vecAdd(cameraPos, loc[p].obj.Center)]
                       ELSE res
        IN  loc' = [loc EXCEPT ![p].result = worldFrameOffset(located, loc[p].currentPos),
                               ![p].failed = IF ok THEN @ ELSE @ \cup {"camera.GetPose"}]
    /\ goto(p, "x_grab")
    /\ called(p, "motion.GetPose")
    /\ UNCHANGED << session, mu, cfg, env, cancelCtx, alive, cmd, alone, sole, pre, everDetected, ret >>

\* Step 7: s.gripper.Grab returns (grabbed, err); grabbed is only logged.
executePick_grab(p) ==
    /\ alive
    /\ pc[p] = "x_grab"
    /\ \E ok \in succeeds("gripper.Grab"), grabbed \in env.grabbed :
        IF ~ok THEN fatal(p, "failed to grab")
        ELSE /\ loc' = [loc EXCEPT ![p].result = stepDone(@, "grab"), ![p].grabbed = grabbed]
             /\ goto(p, "x_lift_endpos")
    /\ called(p, "gripper.Grab")
    /\ UNCHANGED << session, mu, cfg, env, cancelCtx, alive, cmd, alone, sole, pre, everDetected, ret >>

\* Fault: a lift that asks for the arm's position a second time when the
\* first query fails.
executePick_liftPosition_retrying(p) ==
    /\ alive
    /\ pc[p] = "x_lift_endpos"
    /\ \E ok \in succeeds("lift.EndPosition") :
        IF ok THEN goto(p, "x_lift_move") /\ UNCHANGED loc
        ELSE IF "lift.EndPosition" \notin loc[p].failed
        THEN /\ loc' = [loc EXCEPT ![p].failed = @ \cup {"lift.EndPosition"}]
             /\ goto(p, "x_lift_endpos")
        ELSE /\ loc' = [loc EXCEPT ![p].result = stepDone(@, "lift")]
             /\ goto(p, "x_holding")
    /\ called(p, "arm.EndPosition")
    /\ UNCHANGED << session, mu, cfg, env, cancelCtx, alive, cmd, alone, sole, pre, everDetected, ret >>

\* Step 8: s.arm.EndPosition returns; on an error the lift move is skipped and
\* the step is marked all the same.
executePick_liftPosition(p) ==
    /\ alive
    /\ pc[p] = "x_lift_endpos"
    /\ \E ok \in succeeds("lift.EndPosition") :
        IF ok THEN goto(p, "x_lift_move") /\ UNCHANGED loc
        ELSE /\ loc' = [loc EXCEPT ![p].result = stepDone(@, "lift"),
                                   ![p].failed = @ \cup {"lift.EndPosition"}]
             /\ goto(p, "x_holding")
    /\ called(p, "arm.EndPosition")
    /\ UNCHANGED << session, mu, cfg, env, cancelCtx, alive, cmd, alone, sole, pre, everDetected, ret >>

\* Fault: a lift move whose failure aborts the pick.
executePick_lift_fatal(p) ==
    /\ alive
    /\ pc[p] = "x_lift_move"
    /\ \E ok \in succeeds("lift.MoveToPosition") :
        IF ~ok THEN fatal(p, "failed to lift")
        ELSE /\ loc' = [loc EXCEPT ![p].result = stepDone(@, "lift")]
             /\ goto(p, "x_holding")
    /\ called(p, "arm.MoveToPosition")
    /\ UNCHANGED << session, mu, cfg, env, cancelCtx, alive, cmd, alone, sole, pre, everDetected, ret >>

\* Step 8: s.arm.MoveToPosition to the lift pose returns; an error is logged.
executePick_lift(p) ==
    /\ alive
    /\ pc[p] = "x_lift_move"
    /\ \E ok \in succeeds("lift.MoveToPosition") :
        /\ loc' = [loc EXCEPT ![p].result = stepDone(@, "lift"),
                              ![p].failed = IF ok THEN @ ELSE @ \cup {"lift.MoveToPosition"}]
        /\ goto(p, "x_holding")
    /\ called(p, "arm.MoveToPosition")
    /\ UNCHANGED << session, mu, cfg, env, cancelCtx, alive, cmd, alone, sole, pre, everDetected, ret >>

\* Fault: a verify step that takes the grabbed signal for the outcome.
executePick_verify_trusting(p) ==
    /\ alive
    /\ pc[p] = "x_holding"
    /\ \E ok \in succeeds("gripper.IsHoldingSomething"), holding \in env.holding :
        LET res == IF ~ok THEN loc[p].result
                   ELSE [loc[p].result EXCEPT !.IsHolding = holding]
            marked == stepDone(res, "verify")
            final == [marked EXCEPT !.Success = loc[p].grabbed]
        IN  loc' = [loc EXCEPT ![p].result = final, ![p].out = toMap(final), ![p].err = NoErr,
                               ![p].held = (ok /\ holding),
                               ![p].failed = IF ok THEN @
                                             ELSE @ \cup {"gripper.IsHoldingSomething"}]
    /\ goto(p, returnTo(p))
    /\ called(p, "gripper.IsHoldingSomething")
    /\ UNCHANGED << session, mu, cfg, env, cancelCtx, alive, cmd, alone, sole, pre, everDetected, ret >>

\* Step 9: s.gripper.IsHoldingSomething returns; Success = IsHolding and the
\* result map is returned to the handler.
executePick_verify(p) ==
    /\ alive
    /\ pc[p] = "x_holding"
    /\ \E ok \in succeeds("gripper.IsHoldingSomething"), holding \in env.holding :
        LET res == IF ~ok THEN loc[p].result
                   ELSE [loc[p].result EXCEPT !.IsHolding = holding]
            marked == stepDone(res, "verify")
            final == [marked EXCEPT !.Success = marked.IsHolding]
        IN  loc' = [loc EXCEPT ![p].result = final, ![p].out = toMap(final), ![p].err = NoErr,
                               ![p].held = (ok /\ holding),
                               ![p].failed = IF ok THEN @
                                             ELSE @ \cup {"gripper.IsHoldingSomething"}]
    /\ goto(p, returnTo(p))
    /\ called(p, "gripper.IsHoldingSomething")
    /\ UNCHANGED << session, mu, cfg, env, cancelCtx, alive, cmd, alone, sole, pre, everDetected, ret >>

\* ----------------------------------------------------------- handleMoveTo

\* The handler of the move_to command is entered with a target and a step size.
handleMoveTo_call(p) ==
    /\ alive
    /\ p \in env.callers
    /\ cancelCtx = "active"
    /\ pc[p] = "idle"
    /\ env.moveApart => \A q \in Callers \ {p} : ~InFlight(q) \/ cmd[q].command.s = "status"
    /\ \E t \in env.targets, st \in env.stepSizes :
        cmd' = [cmd EXCEPT ![p] = [entry |-> "handleMoveTo",
                                   command |-> [isString |-> TRUE, s |-> "move_to"],
                                   object_index |-> NoIndex, target |-> t, stepSize |-> st]]
    /\ loc' = [loc EXCEPT ![p] = NoLoc]
    /\ calls' = [calls EXCEPT ![p] = <<>>]
    /\ ret' = [ret EXCEPT ![p] = NoRet]
    /\ starts(p)
    /\ goto(p, "mv_lock1")
    /\ UNCHANGED << session, mu, cfg, env, cancelCtx, alive >>

\* s.currentStatus = "moving"; s.mu.Unlock(); the loop starts with steps = 0
\* and its first GetPose.
handleMoveTo_begin(p) ==
    /\ alive
    /\ pc[p] = "mv_set1"
    /\ currentStatus' = "moving"
    /\ Unlock(p)
    /\ loc' = [loc EXCEPT ![p].steps = 0]
    /\ goto(p, IF 0 < maxSteps THEN "x_mv_getpose" ELSE "mv_lock2")
    /\ UNCHANGED << lastDetection, lastResult, cfg, env, cancelCtx, alive, cmd, calls, alone, sole, pre, everDetected, ret >>

\* The whole square root of a square.
sqrt(n) == CHOOSE k \in 0 .. n : k * k = n

\* Fault: a loop that stops only on the target itself.
reached_strict(target, currentPos) == vecNorm2(vecSub(target, currentPos)) <= 0

\* Fault: a loop that stops within 2 mm.
reached_loose(target, currentPos) == vecNorm2(vecSub(target, currentPos)) <= 4

\* dist <= 1.0, dist being sqrt(diff.X^2 + diff.Y^2 + diff.Z^2).
reached(target, currentPos) == vecNorm2(vecSub(target, currentPos)) <= 1

\* Fault: a waypoint that is always a full step ahead.
nextPoint_overshooting(target, currentPos, stepSize) ==
    LET diff == vecSub(target, currentPos)
        dist == sqrt(vecNorm2(diff))
    IN  Vec(currentPos.X + (diff.X * stepSize) \div dist,
            currentPos.Y + (diff.Y * stepSize) \div dist,
            currentPos.Z + (diff.Z * stepSize) \div dist)

\* The waypoint of one iteration: the target when dist <= stepSize, else the
\* current position advanced by stepSize along diff / dist.  The positions of
\* this model lie on one axis, where dist is a whole number and the quotients
\* are exact.
nextPoint(target, currentPos, stepSize) ==
    LET diff == vecSub(target, currentPos)
        dist == sqrt(vecNorm2(diff))
    IN  IF dist <= stepSize THEN target
        ELSE Vec(currentPos.X + (diff.X * stepSize) \div dist,
                 currentPos.Y + (diff.Y * stepSize) \div dist,
                 currentPos.Z + (diff.Z * stepSize) \div dist)

\* Where the motion service may report the gripper to a caller in the loop:
\* on the last waypoint when moves land exactly, else anywhere it may be.
observable(p) ==
    IF env.landing = "exact" /\ loc[p].moves > 0 THEN { loc[p].nextPoint }
    ELSE env.gripperPositions

\* s.motion.GetPose at the top of an iteration returns: an error ends the
\* handler; within 1 mm the loop breaks; otherwise the move is issued.
handleMoveTo_getPose(p) ==
    /\ alive
    /\ pc[p] = "x_mv_getpose"
    /\ \E ok \in succeeds("loop.GetPose"), currentPos \in observable(p) :
        IF ~ok
        THEN /\ loc' = [loc EXCEPT ![p].out = NilMap, ![p].err = "failed to get gripper pose",
                                   ![p].queries = @ + 1]
             /\ goto(p, "mv_lock2")
        ELSE IF reached(cmd[p].target, currentPos)
        THEN /\ loc' = [loc EXCEPT ![p].currentPos = currentPos, ![p].queries = @ + 1,
                                   ![p].startPos = IF loc[p].queries = 0 THEN currentPos ELSE @]
             /\ goto(p, "x_mv_final")
        ELSE /\ loc' = [loc EXCEPT ![p].currentPos = currentPos, ![p].queries = @ + 1,
                                   ![p].startPos = IF loc[p].queries = 0 THEN currentPos ELSE @,
                                   ![p].nextPoint =
                                      nextPoint(cmd[p].target, currentPos, cmd[p].stepSize)]
             /\ goto(p, "x_mv_move")
    /\ UNCHANGED << session, mu, cfg, env, cancelCtx, alive, cmd, calls, alone, sole, pre, everDetected, ret >>

\* Fault: a loop that tries again after the planner found no path.
handleMoveTo_move_retrying(p) ==
    /\ alive
    /\ pc[p] = "x_mv_move"
    /\ \E r \in moveAnswers("loop.Move") :
        CASE r = "err" ->
               /\ loc' = [loc EXCEPT ![p].out = NilMap, ![p].err = "move failed",
                                     ![p].moves = @ + 1, ![p].failed = @ \cup {"loop.Move"}]
               /\ goto(p, "mv_lock2")
          [] r = "no_path" ->
               IF loc[p].steps + 1 < maxSteps
               THEN /\ loc' = [loc EXCEPT ![p].steps = @ + 1, ![p].moves = @ + 1,
                                          ![p].failed = @ \cup {"loop.Move"}]
                    /\ goto(p, "x_mv_getpose")
               ELSE /\ loc' = [loc EXCEPT ![p].steps = @ + 1, ![p].moves = @ + 1,
                                          ![p].failed = @ \cup {"loop.Move"},
                                          ![p].out = NilMap, ![p].err = "did not reach target"]
                    /\ goto(p, "mv_lock2")
          [] OTHER ->
               IF loc[p].steps + 1 < maxSteps
               THEN /\ loc' = [loc EXCEPT ![p].steps = @ + 1, ![p].moves = @ + 1]
                    /\ goto(p, "x_mv_getpose")
               ELSE /\ loc' = [loc EXCEPT ![p].steps = @ + 1, ![p].moves = @ + 1,
                                          ![p].out = NilMap, ![p].err = "did not reach target"]
                    /\ goto(p, "mv_lock2")
    /\ UNCHANGED << session, mu, cfg, env, cancelCtx, alive, cmd, calls, alone, sole, pre, everDetected, ret >>

\* Fault: a loop that runs one iteration past the cap.
handleMoveTo_move_overrun(p) ==
    /\ alive
    /\ pc[p] = "x_mv_move"
    /\ \E r \in moveAnswers("loop.Move") :
        CASE r = "err" ->
               /\ loc' = [loc EXCEPT ![p].out = NilMap, ![p].err = "move failed",
                                     ![p].moves = @ + 1, ![p].failed = @ \cup {"loop.Move"}]
               /\ goto(p, "mv_lock2")
          [] r = "no_path" ->
               /\ loc' = [loc EXCEPT ![p].out = NilMap,
                                     ![p].err = "motion planner could not find path",
                                     ![p].moves = @ + 1, ![p].failed = @ \cup {"loop.Move"}]
               /\ goto(p, "mv_lock2")
          [] OTHER ->
               IF loc[p].steps + 1 <= maxSteps
               THEN /\ loc' = [loc EXCEPT ![p].steps = @ + 1, ![p].moves = @ + 1]
                    /\ goto(p, "x_mv_getpose")
               ELSE /\ loc' = [loc EXCEPT ![p].steps = @ + 1, ![p].moves = @ + 1,
                                          ![p].out = NilMap, ![p].err = "did not reach target"]
                    /\ goto(p, "mv_lock2")
    /\ UNCHANGED << session, mu, cfg, env, cancelCtx, alive, cmd, calls, alone, sole, pre, everDetected, ret >>

\* s.motion.Move returns (success, err): a failure ends the handler; else
\* steps++ and the loop goes on while steps < maxSteps, past which the
\* handler reports that it did not reach the target.
handleMoveTo_move(p) ==
    /\ alive
    /\ pc[p] = "x_mv_move"
    /\ \E r \in moveAnswers("loop.Move") :
        CASE r = "err" ->
               /\ loc' = [loc EXCEPT ![p].out = NilMap, ![p].err = "move failed",
                                     ![p].moves = @ + 1, ![p].failed = @ \cup {"loop.Move"}]
               /\ goto(p, "mv_lock2")
          [] r = "no_path" ->
               /\ loc' = [loc EXCEPT ![p].out = NilMap,
                                     ![p].err = "motion planner could not find path",
                                     ![p].moves = @ + 1, ![p].failed = @ \cup {"loop.Move"}]
               /\ goto(p, "mv_lock2")
          [] OTHER ->
               IF loc[p].steps + 1 < maxSteps
               THEN /\ loc' = [loc EXCEPT ![p].steps = @ + 1, ![p].moves = @ + 1]
                    /\ goto(p, "x_mv_getpose")
               ELSE /\ loc' = [loc EXCEPT ![p].steps = @ + 1, ![p].moves = @ + 1,
                                          ![p].out = NilMap, ![p].err = "did not reach target"]
                    /\ goto(p, "mv_lock2")
    /\ UNCHANGED << session, mu, cfg, env, cancelCtx, alive, cmd, calls, alone, sole, pre, everDetected, ret >>

\* The map a successful handleMoveTo returns.
moveResponse(steps, finalPos, target) ==
    [isNil |-> FALSE, success |-> TRUE, steps |-> steps,
     final_position |-> finalPos, target |-> target]

\* The final s.motion.GetPose returns; on an error finalPos stays r3.Vector{}.
handleMoveTo_final(p) ==
    /\ alive
    /\ pc[p] = "x_mv_final"
    /\ \E ok \in succeeds("final.GetPose"), pos \in observable(p) :
        LET finalPos == IF ok THEN pos ELSE ZeroVec IN
        loc' = [loc EXCEPT ![p].out = moveResponse(loc[p].steps, finalPos, cmd[p].target),
                           ![p].err = NoErr, ![p].queries = @ + 1,
                           ![p].failed = IF ok THEN @ ELSE @ \cup {"final.GetPose"}]
    /\ goto(p, "mv_lock2")
    /\ UNCHANGED << session, mu, cfg, env, cancelCtx, alive, cmd, calls, alone, sole, pre, everDetected, ret >>

\* The deferred function: status back to idle; then the handler returns.
handleMoveTo_defer(p) ==
    /\ alive
    /\ pc[p] = "mv_set2"
    /\ currentStatus' = "idle"
    /\ Unlock(p)
    /\ UNCHANGED << lastDetection, lastResult, cfg, env, cancelCtx, alive, cmd, calls, alone, sole, pre, everDetected >>
    /\ return(p, loc[p].out, loc[p].err)

\* ------------------------------------------------------- specification

Next ==
    \/ Close
    \/ \E p \in Callers :
        \/ DoCommand(p)
        \/ Received(p)
        \/ Lock(p)
        \/ handleDetect_begin(p)
        \/ handleDetect_detect(p)
        \/ handleDetect_fail(p)
        \/ handleDetect_record(p)
        \/ handleStatus_status(p)
        \/ handleStatus_lastResult(p)
        \/ handleStatus(p)
        \/ handlePick_begin(p)
        \/ handlePick_detect(p)
        \/ handlePick_fail(p)
        \/ handlePick_record(p)
        \/ handlePick_check(p)
        \/ handlePick_range(p)
        \/ handlePick_finish(p)
        \/ handlePickDetected_read(p)
        \/ handlePickDetected_check(p)
        \/ handlePickDetected_finish(p)
        \/ panic_exit(p)
        \/ panic_recovered(p)
        \/ executePick_begin(p)
        \/ executePick_open(p)
        \/ executePick_approachPose(p)
        \/ executePick_approach(p)
        \/ executePick_redetect(p)
        \/ executePick_endPosition(p)
        \/ executePick_grasp(p)
        \/ executePick_gripperPose(p)
        \/ executePick_cameraPose(p)
        \/ executePick_grab(p)
        \/ executePick_liftPosition(p)
        \/ executePick_lift(p)
        \/ executePick_verify(p)
        \/ handleMoveTo_call(p)
        \/ handleMoveTo_begin(p)
        \/ handleMoveTo_getPose(p)
        \/ handleMoveTo_move(p)
        \/ handleMoveTo_final(p)
        \/ handleMoveTo_defer(p)

\* One caller at a time.
Spec == Init /\ [][Next]_vars

\* Two callers at once.
SpecConcurrent == InitConcurrent /\ [][Next]_vars

\* One caller, executePick under every answer of the capabilities.
SpecPicking == InitPicking /\ [][Next]_vars

\* One caller, handleMoveTo over its targets and step sizes.  Every external
\* call returns and the goroutine is scheduled: a step that can be taken is
\* taken in the end.
SpecMoving == InitMoving /\ [][Next]_vars /\ WF_vars(Next)

\* ------------------------------------------------------------ properties

\* Caller p has the answer of command c sent through DoCommand.
Answered(p, c) ==
    /\ pc[p] = "done"
    /\ ret[p].returned
    /\ cmd[p].entry = "DoCommand"
    /\ cmd[p].command.isString
    /\ cmd[p].command.s = c

\* Caller p has the answer of a handleMoveTo.
AnsweredMove(p) == pc[p] = "done" /\ ret[p].returned /\ cmd[p].entry = "handleMoveTo"

\* The index caller p asked for.
Asked(p) == objectIndexOf(cmd[p].object_index)

\* The positions inside executePick.
InExecutePick == (ExternalCalls \ { "x_hd_detect", "x_hp_detect", "x_mv_getpose", "x_mv_move",
                                   "x_mv_final" }) \cup { "ep_lock1", "ep_set1" }

\* The session state now, as a record.
Now == Session(currentStatus, lastDetection, lastResult)

C2_NoLockAcrossExternalCalls ==
    /\ \A p \in Callers : pc[p] \in ExternalCalls => mu # p
    /\ \A p, q \in Callers :
        (p # q /\ pc[p] \in ExternalCalls /\ pc[q] = "hs_lock") => mu = NoOne

\* C2 happens: a status command holds the lock and reads the state while the
\* other caller's external call is in progress.
C2_StatusDuringExternalCall ==
    \E p, q \in Callers :
        /\ p # q
        /\ pc[p] \in {"x_hd_detect", "x_grasp_move", "x_mv_move"}
        /\ pc[q] = "hs_read"
        /\ mu = q

\* C3: a pick whose index is at or past the number of freshly detected objects
\* fails with the out-of-range error, leaves lastResult as it was, has called
\* nothing but the detection, and ends with status idle.
C3_PickOutOfRange ==
    \A p \in Callers :
        (/\ Answered(p, "pick")
         /\ ret[p].err # ErrDetectionFailed
         /\ Asked(p) >= len(lastDetection))
            => /\ ret[p].err = ErrOutOfRange
               /\ ret[p].value.isNil
               /\ lastResult = pre[p].lastResult
               /\ calls[p] = << "detectObjects" >>
               /\ ret[p].status = "idle"
               /\ currentStatus = "idle"

\* C3 happens: a pick past the end of a non-empty fresh detection has failed,
\* an earlier pick's result being on record.
C3_PickPastTheEnd ==
    \E p \in Callers :
        /\ Answered(p, "pick")
        /\ ret[p].err = ErrOutOfRange
        /\ len(lastDetection) > 0
        /\ Asked(p) >= len(lastDetection)
        /\ ~pre[p].lastResult.isNil

\* C4: for every index asked for, negative ones included, pick and
\* pickDetected either fail with the out-of-range error or enter executePick
\* with an index i, 0 <= i < the number of objects; no index outside that
\* range selects an object (the index expression never panics).
C4_IndexWithinRange ==
    \A p \in Callers :
        /\ pc[p] # "panicked"
        /\ pc[p] \in InExecutePick =>
              (0 <= loc[p].objectIndex /\ loc[p].objectIndex < len(loc[p].objects))

\* C5: a pickDetected before any detection was recorded fails with the
\* no-previous-detection error, whatever the index, having called no external
\* capability and changed none of status, lastDetection and lastResult.
C5_PickDetectedBeforeDetection ==
    \A p \in Callers :
        (Answered(p, "pick_detected") /\ ~everDetected)
            => /\ ret[p].err = ErrNoPreviousDetection
               /\ ret[p].value.isNil
               /\ calls[p] = << >>
               /\ Now = pre[p]

\* C5 happens: a pickDetected with a negative index was answered before any
\* detection was recorded.
C5_NegativeIndexBeforeDetection ==
    \E p \in Callers :
        /\ Answered(p, "pick_detected")
        /\ ~everDetected
        /\ Asked(p) < 0
        /\ ret[p].err = ErrNoPreviousDetection

\* C6: pickDetected fails with the no-previous-detection error only when no
\* detection has ever been recorded; once one has, even an empty one, status
\* reports a detected_objects count.
C6_StateErrorOnlyBeforeDetection ==
    \A p \in Callers :
        /\ (Answered(p, "pick_detected") /\ ret[p].err = ErrNoPreviousDetection)
              => ~everDetected
        /\ (Answered(p, "status") /\ everDetected) => ret[p].value.has_detected_objects

\* C7: after executePick, pick and pickDetected have its result on record as
\* lastResult when there is one, and the earlier lastResult when there is none.
C7_LastResultKept ==
    \A p \in Callers :
        ((Answered(p, "pick") \/ Answered(p, "pick_detected")) /\ Len(calls[p]) > 0
            /\ calls[p][Len(calls[p])] # "detectObjects")
            => lastResult = (IF ret[p].value.isNil THEN pre[p].lastResult ELSE ret[p].value)

\* C8: when the detection fails inside detect, the error is returned, status
\* is idle, and lastDetection and lastResult are as they were.
C8_DetectFailure ==
    \A p \in Callers :
        /\ pc[p] \in {"hd_lock2e", "hd_set2e"} => loc[p].err # NoErr
        /\ (Answered(p, "detect") /\ ret[p].err # NoErr)
              => /\ ret[p].err = ErrDetectionFailed
                 /\ ret[p].value.isNil
                 /\ ret[p].status = "idle"
                 /\ currentStatus = "idle"
                 /\ lastDetection = pre[p].lastDetection
                 /\ lastResult = pre[p].lastResult

\* C8 happens: a detect has failed with a detection and a result on record.
C8_FailureAfterPick ==
    \E p \in Callers :
        /\ Answered(p, "detect")
        /\ ret[p].err = ErrDetectionFailed
        /\ ~pre[p].lastDetection.isNil
        /\ ~pre[p].lastResult.isNil

\* C9: when no cluster survives, the segmentation giving none or the filters
\* removing all, detectObjects reports no error and detect answers with an
\* empty object list and count 0.
C9_EmptyDetection ==
    /\ \A o \in env.detections :
          (o.checkValid = NoErr /\ o.clustering = NoErr
              /\ len(detectLoop(NilSlice, o.clusters, cfg)) = 0)
            => (detectObjects(o, cfg).err = NoErr /\ len(detectObjects(o, cfg).objects) = 0)
    /\ \A p \in Callers :
          (Answered(p, "detect") /\ ret[p].err = NoErr /\ len(lastDetection) = 0)
            => (~ret[p].value.isNil /\ ret[p].value.objects = << >> /\ ret[p].value.count = 0)

\* C9 happens: a detect whose segmentation gave two clusters, both filtered
\* out, has answered without an error.
C9_AllFilteredOut ==
    \E p \in Callers :
        /\ Answered(p, "detect")
        /\ ret[p].err = NoErr
        /\ ret[p].clusters = 2
        /\ ret[p].value.count = 0

\* C10: a status command on the session state the constructor leaves answers
\* with status idle, no last_result and no detected_objects.
C10_StatusAfterConstruction ==
    \A p \in Callers :
        (Answered(p, "status") /\ pre[p] = Session(NewStatus, NilSlice, NilMap))
            => /\ ret[p].err = NoErr
               /\ ret[p].value.status = "idle"
               /\ ~ret[p].value.has_last_result
               /\ ~ret[p].value.has_detected_objects

\* C10 happens: the first command of a session was status, and it is answered.
C10_FirstStatus ==
    \E p \in Callers :
        /\ Answered(p, "status")
        /\ ~everDetected
        /\ Now = Session(NewStatus, NilSlice, NilMap)
        /\ pre[p] = Now


\* The positions at which executePick has just returned to its caller, the
\* handler's locals holding what it returned.
AfterExecutePick == { "hp_lock5", "hp_set5", "hpd_lock2", "hpd_set2" }

\* executePick has returned a result map to caller p's handler.
HasResult(p) == pc[p] \in AfterExecutePick /\ ~loc[p].out.isNil

\* The names in a steps_completed list.
Names(steps) == { steps[i] : i \in DOMAIN steps }

\* How many times x occurs in the sequence.
Count(seq, x) == Cardinality({ i \in DOMAIN seq : seq[i] = x })

\* The errors executePick returns.
FatalErrors ==
    { "failed to open gripper", "failed to move to approach position",
      "motion planner could not find path to approach position",
      "failed to get arm position", "failed to move to grasp position", "failed to grab" }

\* C11: in every result executePick returns, success equals is_holding, and
\* is_holding is true exactly when the IsHoldingSomething query succeeded and
\* said yes, whatever Grab's grabbed signal was.
C11_SuccessIsHolding ==
    \A p \in Callers :
        HasResult(p) => /\ loc[p].out.success = loc[p].out.is_holding
                        /\ loc[p].out.is_holding = loc[p].held

\* C11 happens: a pick whose Grab said no and whose hold query said yes has
\* returned success.
C11_HoldingNotGrabbed ==
    \E p \in Callers : HasResult(p) /\ ~loc[p].grabbed /\ loc[p].held /\ loc[p].out.success

\* C12: a step's name is in steps_completed only if the step succeeded:
\* re_detect only if the re-detection returned no error, lift only if the lift
\* move was carried out without error, verify only if the hold query succeeded.
C12_StepsOnlyOnSuccess ==
    \A p \in Callers :
        HasResult(p) =>
            LET steps == Names(loc[p].out.steps_completed) IN
            /\ "re_detect" \in steps => "re_detect" \notin loc[p].failed
            /\ "lift" \in steps =>
                  loc[p].failed \cap {"lift.EndPosition", "lift.MoveToPosition"} = {}
            /\ "verify" \in steps => "gripper.IsHoldingSomething" \notin loc[p].failed

\* C13: a pick whose fatal steps all succeed and whose hold query says yes
\* returns success, is_holding and nine distinct step names in steps_completed.
C13_NineSteps ==
    \A p \in Callers :
        (HasResult(p) /\ loc[p].held) =>
            /\ loc[p].out.success
            /\ loc[p].out.is_holding
            /\ Len(loc[p].out.steps_completed) = 9
            /\ Cardinality(Names(loc[p].out.steps_completed)) = 9

\* C14: the grasp move (arm.EndPosition, arm.MoveToPosition) starts with the
\* steps completed ending at re_detect; when it fails executePick returns its
\* error and no result without having called Grab, the lift's EndPosition and
\* MoveToPosition or IsHoldingSomething; and the steps after the grasp move
\* are reached only with grasp_position completed.
C14_GraspFailureAborts ==
    \A p \in Callers :
        /\ pc[p] \in {"x_endpos", "x_grasp_move"} =>
              loc[p].result.StepsCompleted = << "open_gripper", "approach", "re_detect" >>
        /\ pc[p] \in {"x_gripper_pose", "x_camera_pose", "x_grab", "x_lift_endpos",
                      "x_lift_move", "x_holding"} =>
              "grasp_position" \in Names(loc[p].result.StepsCompleted)
        /\ (pc[p] \in AfterExecutePick
              /\ loc[p].err \in {"failed to get arm position", "failed to move to grasp position"})
              => /\ loc[p].out.isNil
                 /\ Count(calls[p], "gripper.Grab") = 0
                 /\ Count(calls[p], "gripper.IsHoldingSomething") = 0
                 /\ Count(calls[p], "arm.EndPosition") = 1
                 /\ Count(calls[p], "arm.MoveToPosition") <= 1

\* C14 happens: a pick whose arm.MoveToPosition to the grasp pose failed has
\* come back from executePick.
C14_GraspMoveFailed ==
    \E p \in Callers :
        /\ pc[p] \in AfterExecutePick
        /\ loc[p].err = "failed to move to grasp position"
        /\ Count(calls[p], "arm.MoveToPosition") = 1

\* C15: executePick returns an error and no result exactly when a fatal step
\* failed (open, approach move, grasp move, grab); failures of the advisory
\* steps alone leave a result, with every fatal step completed, and no error.
C15_ErrorIffFatal ==
    \A p \in Callers :
        pc[p] \in AfterExecutePick =>
            /\ loc[p].out.isNil <=> loc[p].err # NoErr
            /\ loc[p].err # NoErr => loc[p].err \in FatalErrors
            /\ loc[p].err = NoErr =>
                  {"open_gripper", "approach", "grasp_position", "grab"}
                      \subseteq Names(loc[p].out.steps_completed)

\* C15 happens: a pick whose re-detection, gripper pose query, lift and hold
\* query all failed has returned a result.
C15_AdvisoryFailuresOnly ==
    \E p \in Callers :
        /\ HasResult(p)
        /\ {"re_detect", "gripper.GetPose", "lift.EndPosition", "gripper.IsHoldingSomething"}
              \subseteq loc[p].failed

\* C16: the world-frame offset is gripper position minus object position
\* exactly when both positions were obtained in the pick, whatever their
\* values, and is left unset otherwise.
C16_OffsetWhenObtained ==
    \A p \in Callers :
        HasResult(p) =>
            LET gripperObtained == "gripper.GetPose" \notin loc[p].failed
                objectObtained == isWorldFrame(cfg) \/ "camera.GetPose" \notin loc[p].failed
                out == loc[p].out
            IN  out.world_frame_offset_mm.v =
                    IF gripperObtained /\ objectObtained
                    THEN vecSub(out.gripper_position_world_frame, out.object_position_world_frame)
                    ELSE ZeroVec


\* The positions at which the body of handleMoveTo has returned and its
\* deferred function is about to run, the locals holding what it returns.
AfterMoveTo == { "mv_lock2", "mv_set2" }

\* The two positions are within 1 mm of each other.
Within1mm(a, b) == vecNorm2(vecSub(a, b)) <= 1

\* The errors of handleMoveTo that come from a capability's failure.
CapabilityErrors ==
    { "failed to get gripper pose", "move failed", "motion planner could not find path" }

\* The distance between the target and the first observed position, in mm.
InitialDistance(p) == sqrt(vecNorm2(vecSub(cmd[p].target, loc[p].startPos)))

\* The least whole number that is at least n / d, for d > 0.
CeilDiv(n, d) == (n + d - 1) \div d

\* C17: handleMoveTo issues no move in an iteration whose observed distance is
\* within 1 mm and stops there, every earlier observation having led to a
\* move; it returns success only after such an observation; and a start
\* within 1 mm succeeds with steps 0 and no move.
C17_StopsWithin1mm ==
    \A p \in Callers :
        /\ pc[p] = "x_mv_move" => ~Within1mm(cmd[p].target, loc[p].currentPos)
        /\ pc[p] = "x_mv_final" =>
              /\ Within1mm(cmd[p].target, loc[p].currentPos)
              /\ loc[p].steps = loc[p].moves
              /\ loc[p].queries = loc[p].moves + 1
        /\ (pc[p] \in AfterMoveTo /\ loc[p].err = NoErr) =>
              /\ Within1mm(cmd[p].target, loc[p].currentPos)
              /\ loc[p].out.success
              /\ loc[p].out.steps = loc[p].moves
              /\ Within1mm(cmd[p].target, loc[p].startPos) =>
                    (loc[p].out.steps = 0 /\ loc[p].moves = 0)

\* C17 happens: a handleMoveTo that started within 1 mm of a target it was not
\* on has succeeded with steps 0.
C17_StartWithin1mm ==
    \E p \in Callers :
        /\ pc[p] \in AfterMoveTo
        /\ loc[p].err = NoErr
        /\ loc[p].startPos # cmd[p].target
        /\ loc[p].out.steps = 0

MoveToBounded ==
    \A p \in Callers :
        /\ loc[p].moves <= maxSteps
        /\ loc[p].steps <= maxSteps
        /\ (pc[p] \in AfterMoveTo /\ loc[p].err = "did not reach target") =>
              /\ loc[p].steps = maxSteps
              /\ loc[p].moves = maxSteps
              /\ loc[p].queries = maxSteps
        /\ (pc[p] \in AfterMoveTo /\ loc[p].err \notin CapabilityErrors
              /\ loc[p].err # "did not reach target") =>
              Within1mm(cmd[p].target, loc[p].currentPos)

\* C19: when no observed distance is within 1 mm, handleMoveTo makes exactly
\* maxSteps (200) iterations and moves and fails with the exhausted error; for
\* every step size, zero and negative included, it issues at most 200 moves
\* and, its external calls returning, it returns.
C19_CapAndReturn ==
    /\ []MoveToBounded
    /\ \A p \in Callers : Moving(p) ~> ~Moving(p)

\* C19 happens: a handleMoveTo with a step size that is not positive has given
\* up after 200 moves.
C19_ExhaustedBackwards ==
    \E p \in Callers :
        /\ pc[p] \in AfterMoveTo
        /\ loc[p].err = "did not reach target"
        /\ cmd[p].stepSize <= 0
        /\ loc[p].moves = maxSteps

\* C20: handleMoveTo reports that it did not reach the target only if the
\* gripper is not within 1 mm of the target after the last move.
C20_ExhaustedOnlyUnconverged ==
    \A p \in Callers :
        (pc[p] \in AfterMoveTo /\ env.landing = "exact" /\ loc[p].err = "did not reach target")
            => ~Within1mm(cmd[p].target, loc[p].nextPoint)

\* The errors of handleMoveTo for a move that failed.
MoveErrors == { "move failed", "motion planner could not find path" }

\* C21: a move of handleMoveTo that returns an error or success = false ends
\* the loop: every move before it succeeded, it is the last call of the
\* handler (no pose query and no move follows), the handler returns its error
\* and no result, and the status is idle after the return.
C21_MoveFailureAborts ==
    \A p \in Callers :
        /\ pc[p] \in {"x_mv_getpose", "x_mv_move", "x_mv_final"} =>
              ("loop.Move" \notin loc[p].failed /\ loc[p].moves = loc[p].steps)
        /\ (Moving(p) /\ "loop.Move" \in loc[p].failed) =>
              /\ pc[p] \in AfterMoveTo
              /\ loc[p].err \in MoveErrors
              /\ loc[p].out.isNil
              /\ loc[p].moves = loc[p].steps + 1
              /\ loc[p].queries = loc[p].moves
        /\ (pc[p] \in AfterMoveTo /\ loc[p].err \in MoveErrors) => "loop.Move" \in loc[p].failed
        /\ (AnsweredMove(p) /\ ret[p].err \in MoveErrors) =>
              /\ ret[p].value.isNil
              /\ ret[p].status = "idle"
              /\ currentStatus = "idle"

\* C21 happens: the third move of a handleMoveTo found no path and the body
\* has returned its error.
C21_NoPathAtThirdMove ==
    \E p \in Callers :
        /\ pc[p] \in AfterMoveTo
        /\ loc[p].err = "motion planner could not find path"
        /\ loc[p].moves = 3
        /\ loc[p].steps = 2

\* The errors handleMoveTo returns.
MotionErrors == CapabilityErrors \cup { "did not reach target" }

\* C22: a command with command = "move_to" sent through DoCommand is not
\* refused as unknown: it is answered as handleMoveTo answers, with the map of
\* a finished motion or with a motion error.
C22_MoveToDispatched ==
    \A p \in Callers :
        Answered(p, "move_to") =>
            /\ ret[p].err # ErrUnknownCommand
            /\ ret[p].err = NoErr \/ ret[p].err \in MotionErrors

\* The command names of the interface.
CommandNames == { "detect", "pick", "pick_detected", "status", "move_to" }

\* Caller p has the answer of a command whose command field was missing, not
\* a string, or not a command name.
AnsweredMalformed(p) ==
    /\ pc[p] = "done"
    /\ ret[p].returned
    /\ cmd[p].entry = "DoCommand"
    /\ ~cmd[p].command.isString \/ cmd[p].command.s \notin CommandNames

\* C23: a command whose command field is missing, not a string or not a
\* command name is refused with an error and no result, no external
\* capability having been called and status, lastDetection and lastResult
\* being what they were when it arrived.
C23_MalformedRejected ==
    \A p \in Callers :
        AnsweredMalformed(p) =>
            /\ ret[p].err = (IF cmd[p].command.isString THEN ErrUnknownCommand
                             ELSE ErrMissingCommand)
            /\ ret[p].value.isNil
            /\ calls[p] = << >>
            /\ Now = pre[p]

\* C23 happens: an unknown command was refused with a detection and a pick's
\* result on record.
C23_UnknownAfterPick ==
    \E p \in Callers :
        /\ AnsweredMalformed(p)
        /\ cmd[p].command.isString
        /\ len(pre[p].lastDetection) > 0
        /\ ~pre[p].lastResult.isNil

\* C24: once Close has cancelled s.cancelCtx, every call of an external
\* capability in progress for a detect, a pick or a moveTo is made under a
\* context that is done, so that the call and the operation abort.
C24_CallsObserveClose ==
    \A p \in Callers :
        (cancelCtx = "canceled" /\ pc[p] \in ExternalCalls) => contextDone(callContext(pc[p]))

\* The positions of handleDetect and handlePick after detectObjects returned
\* without an error, its objects in the handler's locals.
AfterDetection == { "hd_lock2", "hd_set2", "hp_lock3", "hp_set3" }

\* The cluster passes both post-filters of configuration c.
Passes(cluster, c) ==
    /\ c.MaxDepthMm > 0 => computeCenter(cluster).Z <= c.MaxDepthMm
    /\ c.MaxPointCount > 0 => Len(cluster) <= c.MaxPointCount

\* The clusters that pass, in the order given.
Kept(clusters, c) == SelectSeq(clusters, LAMBDA cluster : Passes(cluster, c))

\* C25: detectObjects returns one object for each cluster that passes both
\* post-filters (centroid depth <= MaxDepthMm when that is positive, point
\* count <= MaxPointCount when that is positive) and for no other, in the
\* order the segmentation gave the clusters; with both thresholds zero every
\* cluster is returned.
C25_FilteredInOrder ==
    \A p \in Callers :
        pc[p] \in AfterDetection =>
            LET kept == Kept(loc[p].segmented, cfg) IN
            /\ len(loc[p].objects) = Len(kept)
            /\ \A i \in 1 .. Len(kept) :
                  /\ loc[p].objects.elems[i].Center = computeCenter(kept[i])
                  /\ loc[p].objects.elems[i].PointCount = Len(kept[i])
            /\ (cfg.MaxDepthMm = 0 /\ cfg.MaxPointCount = 0) =>
                  len(loc[p].objects) = Len(loc[p].segmented)

\* C25 happens: of three clusters the second was too deep, and the first and
\* the third, the latter at the point-count threshold, were returned.
C25_MiddleFilteredOut ==
    \E p \in Callers :
        /\ pc[p] \in AfterDetection
        /\ loc[p].segmented = << ClusterNear, ClusterFar, ClusterBig >>
        /\ cfg.MaxPointCount = Len(ClusterBig)
        /\ len(loc[p].objects) = 2
        /\ loc[p].objects.elems[2].PointCount = Len(ClusterBig)

\* The positions of handleStatus.
InStatus == { "hs_lock", "hs_read", "hs_result", "hs_detection" }

\* What C26 asks of one step, for caller p: a step of handleStatus leaves the
\* session state alone; what it has read so far is what the session state
\* holds; and the map it returns reports the session state of the moment of
\* its return.
StatusStep(p) ==
    /\ (pc[p] \in InStatus /\ pc'[p] # pc[p]) => session' = session
    /\ pc'[p] \in {"hs_result", "hs_detection"} => loc'[p].out.status = currentStatus'
    /\ pc'[p] = "hs_detection" =>
          /\ loc'[p].out.last_result = lastResult'
          /\ loc'[p].out.has_last_result = ~lastResult'.isNil
    /\ (pc[p] = "hs_detection" /\ pc'[p] = "done") =>
          ret'[p].value = statusResponse(currentStatus, lastResult, lastDetection)

\* C26: handleStatus changes none of status, lastDetection and lastResult, and
\* the three values it reports are those of the session state at one moment,
\* whatever the other callers do meanwhile.
C26_StatusSnapshot == [][\A p \in Callers : StatusStep(p)]_vars

\* C26 happens: a status command that has read the status picking and the
\* last result holds the lock while the other caller's pick waits for it to
\* record its result.
C26_ReadingWhileWriterWaits ==
    \E p, q \in Callers :
        /\ pc[p] = "hs_detection"
        /\ mu = p
        /\ loc[p].out.status = "picking"
        /\ pc[q] \in {"hp_lock5", "hpd_lock2"}

\* C27: after a detect that succeeded, and after a pick whose detection
\* succeeded, the out-of-range failure included, lastDetection is exactly the
\* objects that command's own detection returned, whatever was on record.
C27_DetectionReplaced ==
    \A p \in Callers :
        /\ (Answered(p, "detect") /\ ret[p].err = NoErr) =>
              /\ lastDetection = ret[p].objects
              /\ ret[p].value = detectResponse(lastDetection)
        /\ (Answered(p, "pick") /\ ret[p].err # ErrDetectionFailed) =>
              lastDetection = ret[p].objects
        /\ pc[p] \in {"hp_check", "hp_lock4", "hp_set4"} => lastDetection = loc[p].objects

\* C27 happens: a pick that failed with the out-of-range error has replaced a
\* detection of one object by its own of two.
C27_ReplacedThenOutOfRange ==
    \E p \in Callers :
        /\ Answered(p, "pick")
        /\ ret[p].err = ErrOutOfRange
        /\ len(pre[p].lastDetection) = 1
        /\ len(lastDetection) = 2
        /\ ret[p].clusters = 2

\* C28: when handleMoveTo succeeds, the steps it reports is the number of
\* moves it issued and the final_position it reports is a gripper position
\* the final pose query observed, never the zero value left by a query that
\* failed.
C28_FinalPositionObserved ==
    \A p \in Callers :
        (pc[p] \in AfterMoveTo /\ loc[p].err = NoErr) =>
            /\ loc[p].out.success
            /\ loc[p].out.steps = loc[p].moves
            /\ "final.GetPose" \notin loc[p].failed
            /\ loc[p].out.final_position \in observable(p)

\* For each external call of a pick, the capability method called and the
\* number of calls of that method the pick has made before it: the calls of
\* the earlier steps, and none of this one.
EarlierCalls(p) ==
    [ x_open |-> << "gripper.Open", 0 >>,
      x_approach_pose |-> << "motion.GetPose", 0 >>,
      x_approach_move |-> << "motion.Move", 0 >>,
      x_redetect |-> << "detectObjects", IF cmd[p].command.s = "pick" THEN 1 ELSE 0 >>,
      x_endpos |-> << "arm.EndPosition", 0 >>,
      x_grasp_move |-> << "arm.MoveToPosition", 0 >>,
      x_gripper_pose |-> << "motion.GetPose", IF isWorldFrame(cfg) THEN 1 ELSE 0 >>,
      x_camera_pose |-> << "motion.GetPose", 1 >>,
      x_grab |-> << "gripper.Grab", 0 >>,
      x_lift_endpos |-> << "arm.EndPosition", 1 >>,
      x_lift_move |-> << "arm.MoveToPosition", 1 >>,
      x_holding |-> << "gripper.IsHoldingSomething", 0 >> ]

\* C29: whenever a call of a step of a pick is in progress it is the step's
\* first, whatever failed before; a finished pick has called no capability
\* more often than it has steps calling it; and a move of handleMoveTo that
\* failed is the handler's last.
C29_NoRetries ==
    \A p \in Callers :
        /\ pc[p] \in DOMAIN EarlierCalls(p) =>
              Count(calls[p], EarlierCalls(p)[pc[p]][1]) = EarlierCalls(p)[pc[p]][2]
        /\ pc[p] \in AfterExecutePick =>
              /\ \A m \in {"gripper.Open", "motion.Move", "gripper.Grab",
                           "gripper.IsHoldingSomething"} : Count(calls[p], m) <= 1
              /\ \A m \in {"arm.EndPosition", "arm.MoveToPosition", "motion.GetPose"} :
                    Count(calls[p], m) <= 2
              /\ Cardinality(loc[p].failed) <= Len(calls[p])
        /\ pc[p] = "x_mv_move" => loc[p].moves = loc[p].steps
        /\ (Moving(p) /\ "loop.Move" \in loc[p].failed) =>
              (pc[p] \in AfterMoveTo /\ loc[p].moves = loc[p].steps + 1)

\* C29 happens: a pick whose gripper pose query and whose lift query both
\* failed has gone on to the end, each asked once.
C29_FailedStepsPassedOver ==
    \E p \in Callers :
        /\ HasResult(p)
        /\ {"gripper.GetPose", "lift.EndPosition"} \subseteq loc[p].failed
        /\ Count(calls[p], "arm.EndPosition") = 2
        /\ Count(calls[p], "arm.MoveToPosition") = 1
        /\ Count(calls[p], "motion.GetPose") = 1

\* The position v is the mean of the points of the cloud: on each axis, v
\* times the number of points is the sum of the points' coordinates.
IsMean(v, cloud) ==
    /\ Len(cloud) > 0
    /\ v.X * Len(cloud) = SumX(cloud)
    /\ v.Y * Len(cloud) = SumY(cloud)
    /\ v.Z * Len(cloud) = SumZ(cloud)

\* C30: each object detectObjects returns has for its center the mean of the
\* positions of all the points of its cluster, and for its point count the
\* number of those points.
C30_CenterIsMean ==
    \A p \in Callers :
        pc[p] \in AfterDetection =>
            LET kept == Kept(loc[p].segmented, cfg) IN
            /\ len(loc[p].objects) <= Len(kept)
            /\ \A i \in 1 .. len(loc[p].objects) :
                  /\ IsMean(loc[p].objects.elems[i].Center, kept[i])
                  /\ loc[p].objects.elems[i].PointCount = Len(kept[i])

\* C30 happens: a cluster of three points that differ on two axes was
\* returned with its center.
C30_ThreePointCluster ==
    \E p \in Callers :
        /\ pc[p] \in AfterDetection
        /\ loc[p].segmented = << ClusterFar, ClusterBig >>
        /\ len(loc[p].objects) = 2
        /\ loc[p].objects.elems[2] = [Center |-> Vec(4, 1, 2), PointCount |-> 3]

\* The external calls of executePick in the order of its text, by the
\* capability method called.
PickOrder ==
    << "gripper.Open", "motion.GetPose", "motion.Move", "detectObjects",
       "arm.EndPosition", "arm.MoveToPosition", "motion.GetPose", "motion.GetPose",
       "gripper.Grab", "arm.EndPosition", "arm.MoveToPosition",
       "gripper.IsHoldingSomething" >>

\* s can be had from t by leaving elements out.
RECURSIVE IsSubsequence(_, _)
IsSubsequence(s, t) ==
    IF s = << >> THEN TRUE
    ELSE IF t = << >> THEN FALSE
    ELSE IF Head(s) = Head(t) THEN IsSubsequence(Tail(s), Tail(t))
    ELSE IsSubsequence(s, Tail(t))

\* The calls executePick has made for caller p: those of the command but the
\* detection of handlePick.
PickCalls(p) == IF cmd[p].command.s = "pick" THEN Tail(calls[p]) ELSE calls[p]

\* C31: the external calls of a pick are made in the order open, approach
\* move, re-detection, grasp move, pose queries, grab, lift, hold query, each
\* after the earlier ones have returned; and Grab is called only after the
\* gripper's opening, the approach move and the grasp move have succeeded in
\* this pick.
C31_CallsInOrder ==
    \A p \in Callers :
        /\ pc[p] \in (InExecutePick \cup AfterExecutePick) \ {"ep_lock1", "ep_set1"} =>
              IsSubsequence(PickCalls(p), PickOrder)
        /\ pc[p] = "x_grab" =>
              /\ loc[p].result.StepsCompleted =
                    << "open_gripper", "approach", "re_detect", "grasp_position" >>
              /\ \A m \in {"gripper.Open", "motion.Move", "arm.EndPosition",
                           "arm.MoveToPosition"} : Count(PickCalls(p), m) = 1
              /\ Count(PickCalls(p), "gripper.Grab") = 0
        /\ pc[p] \in {"x_lift_endpos", "x_lift_move", "x_holding"} =>
              /\ Count(PickCalls(p), "gripper.Grab") = 1
              /\ {"open_gripper", "approach", "grasp_position"}
                    \subseteq Names(loc[p].result.StepsCompleted)

\* C31 happens: a pick in the camera's frame has made every one of its
\* calls, eleven after the detection of handlePick, both pose queries among
\* them.
C31_EveryCallMade ==
    \E p \in Callers :
        /\ HasResult(p)
        /\ cmd[p].command.s = "pick"
        /\ ~isWorldFrame(cfg)
        /\ Len(PickCalls(p)) = Len(PickOrder) - 1
        /\ Count(PickCalls(p), "motion.GetPose") = 2

\* The step names executePick appends, in the order of its text.
StepNames ==
    << "open_gripper", "approach", "re_detect", "grasp_position", "grab", "lift", "verify" >>

\* How many step names executePick has appended when a call is in progress
\* at the position.
StepsBefore ==
    [ x_open |-> 0, x_approach_pose |-> 1, x_approach_move |-> 1, x_redetect |-> 2,
      x_endpos |-> 3, x_grasp_move |-> 3, x_gripper_pose |-> 4, x_camera_pose |-> 4,
      x_grab |-> 4, x_lift_endpos |-> 5, x_lift_move |-> 5, x_holding |-> 6 ]

AfterRedetect ==
    { "x_endpos", "x_grasp_move", "x_gripper_pose", "x_camera_pose", "x_grab",
      "x_lift_endpos", "x_lift_move", "x_holding" }

\* The approach offset the re-detection of caller p's pick has to leave.
measuredOffset(p) ==
    IF loc[p].redetected.found
    THEN vecSub(loc[p].redetected.Center, loc[p].obj.Center)
    ELSE ZeroVec

\* C33: after the re-detection step the approach offset is the center of the
\* first re-detected object minus the original center of the picked object,
\* per axis, when the re-detection returned an object, and the zero vector
\* when it failed or returned none; in both cases the pick is at its grasp
\* move, re_detect marked, and the returned result carries the same offset.
C33_OffsetIsDifference ==
    \A p \in Callers :
        /\ pc[p] \in AfterRedetect =>
              /\ loc[p].result.ApproachOffsetMm = measuredOffset(p)
              /\ "re_detect" \in Names(loc[p].result.StepsCompleted)
              /\ "re_detect" \in loc[p].failed => ~loc[p].redetected.found
        /\ HasResult(p) =>
              /\ loc[p].out.approach_offset_mm.v = measuredOffset(p)
              /\ loc[p].out.approach_offset_mm.total2 = vecNorm2(measuredOffset(p))

\* C33 happens: a pick that re-detected its object somewhere else has returned
\* a result with that offset.
C33_ObjectSeenElsewhere ==
    \E p \in Callers :
        /\ HasResult(p)
        /\ loc[p].redetected.found
        /\ loc[p].redetected.Center # loc[p].obj.Center
        /\ loc[p].out.approach_offset_mm.v # ZeroVec

\* The scalar product of two vectors.
vecDot(a, b) == a.X * b.X + a.Y * b.Y + a.Z * b.Z

\* dist <= stepSize, in squares: stepSize is not negative and dist^2 is at
\* most stepSize^2.
WithinStep(target, currentPos, stepSize) ==
    stepSize >= 0 /\ vecNorm2(vecSub(target, currentPos)) <= stepSize * stepSize

\* Waypoint n lies stepSize from c along the direction of diff (against it
\* for a negative stepSize).
AdvancedAlong(n, c, diff, stepSize) ==
    LET step == vecSub(n, c) IN
        /\ vecNorm2(step) = stepSize * stepSize
        /\ vecDot(step, diff) * vecDot(step, diff) = vecNorm2(step) * vecNorm2(diff)
        /\ vecDot(step, diff) * stepSize >= 0

\* C34: while a move of the convergence loop is in progress, its waypoint is
\* the target when the distance left was at most stepSize, and otherwise the
\* current position advanced by exactly stepSize along the direction to the
\* target; for a positive stepSize the waypoint is no farther from the target
\* than the current position and not beyond the target.
C34_WaypointTowardsTarget ==
    \A p \in Callers :
        pc[p] = "x_mv_move" =>
            LET target == cmd[p].target
                cur == loc[p].currentPos
                next == loc[p].nextPoint
                stepSize == cmd[p].stepSize
            IN  /\ ~reached(target, cur)
                /\ WithinStep(target, cur, stepSize) => next = target
                /\ ~WithinStep(target, cur, stepSize) =>
                      AdvancedAlong(next, cur, vecSub(target, cur), stepSize)
                /\ stepSize > 0 =>
                      /\ vecNorm2(vecSub(target, next)) <= vecNorm2(vecSub(target, cur))
                      /\ vecDot(vecSub(target, next), vecSub(target, cur)) >= 0

\* C34 happens: after full steps a move with less than a step left goes to
\* the target itself.
C34_LastStepShortened ==
    \E p \in Callers :
        /\ pc[p] = "x_mv_move"
        /\ loc[p].moves > 1
        /\ cmd[p].stepSize > 1
        /\ vecNorm2(vecSub(cmd[p].target, loc[p].currentPos)) < cmd[p].stepSize * cmd[p].stepSize
        /\ loc[p].nextPoint = cmd[p].target

\* Caller p's pick has returned the error of its initial detection.
DetectionFailedIn(p) == Answered(p, "pick") /\ ret[p].err = ErrDetectionFailed

\* C35: a pick whose initial detection failed has returned the detection
\* error and no result, with status idle, having called nothing but
\* detectObjects (no gripper, arm or motion capability), and lastDetection
\* and lastResult are what they were when it started.
C35_FailedDetectionLeavesSession ==
    \A p \in Callers :
        DetectionFailedIn(p) =>
            /\ ret[p].value = NilMap
            /\ ret[p].status = "idle"
            /\ currentStatus = "idle"
            /\ calls[p] = << "detectObjects" >>
            /\ lastDetection = pre[p].lastDetection
            /\ lastResult = pre[p].lastResult

\* C35 happens: a pick failed at its detection with a detection and a pick
\* result on record.
C35_FailedWithHistory ==
    \E p \in Callers :
        /\ DetectionFailedIn(p)
        /\ ~pre[p].lastDetection.isNil
        /\ ~pre[p].lastResult.isNil

\* Caller p's operation is executing an external call and no other detect,
\* pick, pick_detected or move_to has been in flight since it started.
ExecutingUnshared(p) == sole[p] /\ Operating(p) /\ pc[p] \in ExternalCalls

\* C36 as amended: while a detect, pick, pickDetected or moveTo that shares the
\* service with no other such command (status polls may run at any time)
\* executes an external call, status is not idle, and the status a poll reads
\* under the lock at that moment is not idle either.
C36_BusyWhileUnsharedOperation ==
    \A p \in Callers :
        ExecutingUnshared(p) =>
            /\ currentStatus \in {"detecting", "picking", "moving"}
            /\ \A q \in Callers \ {p} :
                  (pc[q] = "hs_result" /\ mu = q) => loc[q].out.status # "idle"

\* C36 happens: a status poll holds the lock, having read picking, while the
\* only operation executes an external call.
C36_PolledWhilePicking ==
    \E p \in Callers : \E q \in Callers \ {p} :
        /\ ExecutingUnshared(p)
        /\ pc[q] = "hs_result"
        /\ mu = q
        /\ loc[q].out.status = "picking"

\* C36 as stated: whenever status is idle no command is executing an external
\* call.
C36_IdleMeansNothingExecuting ==
    currentStatus = "idle" => \A p \in Callers : ~(Operating(p) /\ pc[p] \in ExternalCalls)

\* The index is within the list: objects[objectIndex] is an element.
InBounds(objectIndex, objects) == 0 <= objectIndex /\ objectIndex < len(objects)

\* Caller p's command is a pick or a pickDetected.
Picks(p) ==
    cmd[p].entry = "DoCommand" /\ cmd[p].command.isString /\ cmd[p].command.s \in {"pick", "pick_detected"}

\* What C37 asks of one step, for caller p: pickDetected's list is
\* lastDetection as read under the lock; no later step of the command changes
\* its list; the index test decides on that list alone, handing over its
\* element at the index, and panics only on a negative index; in the
\* orchestrator the object is that element; and no step of a pickDetected
\* writes lastDetection.
PickStep(p) ==
    /\ (pc[p] = "hpd_read" /\ pc'[p] = "hpd_check") => loc'[p].objects = lastDetection
    /\ (pc[p] \in {"hp_lock3", "hp_set3", "hp_check", "hpd_check"} \cup InExecutePick /\ pc'[p] # "done") =>
          loc'[p].objects = loc[p].objects
    /\ (pc[p] \in {"hp_check", "hpd_check"} /\ pc'[p] # pc[p]) =>
          /\ pc'[p] = "ep_lock1" <=> InBounds(loc[p].objectIndex, loc[p].objects)
          /\ pc'[p] = "panicked" <=>
                (loc[p].objectIndex < 0 /\ (pc[p] = "hpd_check" => ~loc[p].objects.isNil))
    /\ (Picks(p)' /\ pc'[p] \in InExecutePick) =>
          /\ InBounds(loc'[p].objectIndex, loc'[p].objects)
          /\ loc'[p].obj = loc'[p].objects.elems[loc'[p].objectIndex + 1]
          /\ loc'[p].objectIndex = Asked(p)'
    /\ (pc'[p] # pc[p] /\ cmd[p].command.s = "pick_detected") => lastDetection' = lastDetection

\* C37: the object handed to executePick is the element at the requested
\* index of the list the command itself read (lastDetection under the lock for
\* pickDetected, its own detection for pick); whatever other commands do to
\* lastDetection in between, the index test and the element are those of that
\* list, and pickDetected never writes lastDetection.
C37_PicksFromOwnList == [][\A p \in Callers : PickStep(p)]_vars

\* C37 happens: a pickDetected is in the orchestrator with the object of the
\* list it read while lastDetection has been replaced since.
C37_ReplacedDuringPick ==
    \E p \in Callers :
        /\ cmd[p].command.s = "pick_detected"
        /\ pc[p] \in InExecutePick
        /\ lastDetection # loc[p].objects
        /\ loc[p].obj = loc[p].objects.elems[loc[p].objectIndex + 1]

\* Some command that has not returned takes a step.
Proceeds == Next /\ \E q \in Callers : pc[q] \notin {"idle", "done"} /\ pc'[q] # pc[q]

\* Where a caller holds no lock: outside every command, after its return or
\* panic, inside an external call, and waiting for the lock.
Unlocked == {"idle", "done", "panicked"} \cup ExternalCalls \cup DOMAIN LockSites

\* C38: every acquired lock is released (no caller holds the session lock
\* once its command has returned, nor during an external call), and as long
\* as a command has not returned some command can take a step: with external
\* calls that return, no set of concurrent commands deadlocks and none is
\* left without its return.
C38_ReleasedAndNeverStuck ==
    /\ \A p \in Callers : mu = p => pc[p] \notin Unlocked
    /\ (\E p \in Callers : pc[p] \notin {"idle", "done"}) => ENABLED Proceeds

\* The positions of a handler before its first state transition, from which
\* pickDetected also makes its error returns.
BeforeTransition ==
    { "hd_lock1", "hd_set1", "hp_lock1", "hp_set1", "hpd_lock1", "hpd_read", "hpd_check",
      "mv_lock1", "mv_set1" }

\* The positions of handleDetect and handlePick between the transition to
\* detecting and the next one.
WhileDetecting ==
    { "x_hd_detect", "hd_lock2e", "hd_set2e", "hd_lock2", "hd_set2",
      "x_hp_detect", "hp_lock2e", "hp_set2e", "hp_lock3", "hp_set3", "hp_check",
      "hp_lock4", "hp_set4" }

\* The positions between executePick's transition to picking and the
\* handler's transition back to idle.
WhilePicking == (InExecutePick \ {"ep_lock1", "ep_set1"}) \cup AfterExecutePick

\* The positions of handleMoveTo between its transition to moving and the
\* deferred transition back to idle.
WhileMoving == { "x_mv_getpose", "x_mv_move", "x_mv_final", "mv_lock2", "mv_set2" }

\* The status the fixed order gives caller p's command where it is now.
statusInOrder(p) ==
    CASE pc[p] \in BeforeTransition -> "idle"
      [] pc[p] \in {"ep_lock1", "ep_set1"} ->
            IF cmd[p].command.s = "pick" THEN "detecting" ELSE "idle"
      [] pc[p] \in WhileDetecting -> "detecting"
      [] pc[p] \in WhilePicking -> "picking"
      [] pc[p] \in WhileMoving -> "moving"
      [] pc[p] = "done" /\ Transitions(cmd[p]) -> "idle"
      [] OTHER -> currentStatus

====
